---- MODULE Spec2Model ----
(***************************************************************************)
(* Model of the MCP connection manager (src/src/mcp/mcp-manager.ts), of    *)
(* the error helpers it is specified against                               *)
(* (src/src/mcp/error-handler.ts) and of the loading of the delegates'     *)
(* tools at start-up (src/src/agent/types.ts).                             *)
(*                                                                         *)
(* Spec and SpecTools are behaviours of one manager, SpecRetry of one      *)
(* handleWithRetry call, SpecTimeout of one wrapWithTimeout call and       *)
(* SpecSubAgents of one start-up that creates the delegates in turn, each  *)
(* with a manager of its own.                                              *)
(* SpecConfig is the way from a configuration file to the providers of a   *)
(* session (src/src/mcp/config-loader.ts), SpecErrors one call of          *)
(* categorizeError or isRetryable, SpecConcurrent several calls in flight  *)
(* on one manager and SpecInstances several managers of one process.       *)
(* SpecOperations runs the six operations of one manager together and      *)
(* SpecSanitizer the schema sanitizer on tool objects held in memory.      *)
(*                                                                         *)
(* A string whose content matters (an error message, a tool name) is kept  *)
(* as the sequence of the pieces of its template literal; Chars gives the  *)
(* characters of every piece, so that includes() and toLowerCase() are     *)
(* computed on the text itself.                                            *)
(***************************************************************************)
EXTENDS Integers, Sequences, FiniteSets, TLC

\* ---------------------------------------------------------------- bounds
\* number of MCPConfiguration objects one run may construct
MaxSessions == 2
\* number of times MCPConfiguration.disconnect() may be invoked on one object
MaxReleases == 2
\* largest options.maxAttempts a handleWithRetry call is given
MaxAttempts == 3
\* number of outcomes scripted for the operation given to handleWithRetry
MaxScript == 3
\* number of delegates (config.subAgents) of one start-up
MaxSubAgents == 2
\* callers with a call in flight on one manager
MaxCallers == 2
\* MCPManager instances of one process: the primary and the delegates' managers
MaxManagers == 2
\* number of tool objects that may be in memory
MaxObjects == 8

\* ------------------------------------------------------ program constants
\* connectionOptions.reconnectAttempts default
reconnectAttempts == 3
\* connectionOptions.reconnectDelay default (ms)
reconnectDelay == 5000

\* ---------------------------------------------------------------- strings
\* the characters of the string literals of the program and of its inputs
Chars ==
  ("Failed to initialize MCP servers" :> <<"F", "a", "i", "l", "e", "d", " ", "t", "o", " ", "i", "n", "i", "t", "i", "a", "l", "i", "z", "e", " ", "M", "C", "P", " ", "s", "e", "r", "v", "e", "r", "s">>)
  @@ ("Failed to execute tool call " :> <<"F", "a", "i", "l", "e", "d", " ", "t", "o", " ", "e", "x", "e", "c", "u", "t", "e", " ", "t", "o", "o", "l", " ", "c", "a", "l", "l", " ">>)
  @@ ("Failed to get available tools" :> <<"F", "a", "i", "l", "e", "d", " ", "t", "o", " ", "g", "e", "t", " ", "a", "v", "a", "i", "l", "a", "b", "l", "e", " ", "t", "o", "o", "l", "s">>)
  @@ ("Failed to disconnect MCP servers" :> <<"F", "a", "i", "l", "e", "d", " ", "t", "o", " ", "d", "i", "s", "c", "o", "n", "n", "e", "c", "t", " ", "M", "C", "P", " ", "s", "e", "r", "v", "e", "r", "s">>)
  @@ ("Failed to reconnect to MCP servers" :> <<"F", "a", "i", "l", "e", "d", " ", "t", "o", " ", "r", "e", "c", "o", "n", "n", "e", "c", "t", " ", "t", "o", " ", "M", "C", "P", " ", "s", "e", "r", "v", "e", "r", "s">>)
  @@ ("Failed to connect after multiple attempts" :> <<"F", "a", "i", "l", "e", "d", " ", "t", "o", " ", "c", "o", "n", "n", "e", "c", "t", " ", "a", "f", "t", "e", "r", " ", "m", "u", "l", "t", "i", "p", "l", "e", " ", "a", "t", "t", "e", "m", "p", "t", "s">>)
  @@ ("MCP configuration not initialized" :> <<"M", "C", "P", " ", "c", "o", "n", "f", "i", "g", "u", "r", "a", "t", "i", "o", "n", " ", "n", "o", "t", " ", "i", "n", "i", "t", "i", "a", "l", "i", "z", "e", "d">>)
  @@ ("MCP Manager not initialized. Call initializeServers() first." :> <<"M", "C", "P", " ", "M", "a", "n", "a", "g", "e", "r", " ", "n", "o", "t", " ", "i", "n", "i", "t", "i", "a", "l", "i", "z", "e", "d", ".", " ", "C", "a", "l", "l", " ", "i", "n", "i", "t", "i", "a", "l", "i", "z", "e", "S", "e", "r", "v", "e", "r", "s", "(", ")", " ", "f", "i", "r", "s", "t", ".">>)
  @@ ("Tool " :> <<"T", "o", "o", "l", " ">>)
  @@ (" not found" :> <<" ", "n", "o", "t", " ", "f", "o", "u", "n", "d">>)
  @@ (" does not have a handler" :> <<" ", "d", "o", "e", "s", " ", "n", "o", "t", " ", "h", "a", "v", "e", " ", "a", " ", "h", "a", "n", "d", "l", "e", "r">>)
  @@ ("ECONNREFUSED" :> <<"E", "C", "O", "N", "N", "R", "E", "F", "U", "S", "E", "D">>)
  @@ ("ECONNRESET" :> <<"E", "C", "O", "N", "N", "R", "E", "S", "E", "T">>)
  @@ ("ETIMEDOUT" :> <<"E", "T", "I", "M", "E", "D", "O", "U", "T">>)
  @@ ("ENOTFOUND" :> <<"E", "N", "O", "T", "F", "O", "U", "N", "D">>)
  @@ ("ENETUNREACH" :> <<"E", "N", "E", "T", "U", "N", "R", "E", "A", "C", "H">>)
  @@ ("EHOSTUNREACH" :> <<"E", "H", "O", "S", "T", "U", "N", "R", "E", "A", "C", "H">>)
  @@ ("EPIPE" :> <<"E", "P", "I", "P", "E">>)
  @@ ("timeout" :> <<"t", "i", "m", "e", "o", "u", "t">>)
  @@ ("connection" :> <<"c", "o", "n", "n", "e", "c", "t", "i", "o", "n">>)
  @@ ("econnrefused" :> <<"e", "c", "o", "n", "n", "r", "e", "f", "u", "s", "e", "d">>)
  @@ ("etimedout" :> <<"e", "t", "i", "m", "e", "d", "o", "u", "t">>)
  @@ ("config" :> <<"c", "o", "n", "f", "i", "g">>)
  @@ ("configuration" :> <<"c", "o", "n", "f", "i", "g", "u", "r", "a", "t", "i", "o", "n">>)
  @@ ("protocol" :> <<"p", "r", "o", "t", "o", "c", "o", "l">>)
  @@ ("invalid" :> <<"i", "n", "v", "a", "l", "i", "d">>)
  @@ ("Invalid configuration" :> <<"I", "n", "v", "a", "l", "i", "d", " ", "c", "o", "n", "f", "i", "g", "u", "r", "a", "t", "i", "o", "n">>)
  @@ ("Tool execution failed" :> <<"T", "o", "o", "l", " ", "e", "x", "e", "c", "u", "t", "i", "o", "n", " ", "f", "a", "i", "l", "e", "d">>)
  @@ ("Disconnect failed" :> <<"D", "i", "s", "c", "o", "n", "n", "e", "c", "t", " ", "f", "a", "i", "l", "e", "d">>)
  @@ ("read_file" :> <<"r", "e", "a", "d", "_", "f", "i", "l", "e">>)
  @@ ("test_tool" :> <<"t", "e", "s", "t", "_", "t", "o", "o", "l">>)
  @@ ("unknown_tool" :> <<"u", "n", "k", "n", "o", "w", "n", "_", "t", "o", "o", "l">>)
  @@ ("Operation " :> <<"O", "p", "e", "r", "a", "t", "i", "o", "n", " ">>)
  @@ (" timed out after " :> <<" ", "t", "i", "m", "e", "d", " ", "o", "u", "t", " ", "a", "f", "t", "e", "r", " ">>)
  @@ ("ms" :> <<"m", "s">>)
  @@ ("test-operation" :> <<"t", "e", "s", "t", "-", "o", "p", "e", "r", "a", "t", "i", "o", "n">>)
  @@ ("op" :> <<"o", "p">>)
  @@ ("0" :> <<"0">>)
  @@ ("1" :> <<"1">>)
  @@ ("2" :> <<"2">>)
  @@ ("3" :> <<"3">>)
  @@ ("4" :> <<"4">>)
  @@ ("5" :> <<"5">>)
  @@ ("6" :> <<"6">>)
  @@ ("7" :> <<"7">>)
  @@ ("8" :> <<"8">>)
  @@ ("9" :> <<"9">>)
  @@ ("config/" :> <<"c", "o", "n", "f", "i", "g", "/">>)
  @@ ("./config/" :> <<".", "/", "c", "o", "n", "f", "i", "g", "/">>)
  @@ ("/" :> <<"/">>)
  @@ ("." :> <<".">>)
  @@ (".." :> <<".", ".">>)
  @@ ("sub-mcp.json" :> <<"s", "u", "b", "-", "m", "c", "p", ".", "j", "s", "o", "n">>)
  @@ ("etc" :> <<"e", "t", "c">>)
  @@ ("passwd" :> <<"p", "a", "s", "s", "w", "d">>)
  @@ ("app" :> <<"a", "p", "p">>)
  @@ ("ENOENT" :> <<"E", "N", "O", "E", "N", "T">>)
  @@ ("EACCES" :> <<"E", "A", "C", "C", "E", "S">>)
  @@ ("Unexpected token" :> <<"U", "n", "e", "x", "p", "e", "c", "t", "e", "d", " ", "t", "o", "k", "e", "n">>)
  @@ ("fs" :> <<"f", "s">>)
  @@ ("web" :> <<"w", "e", "b">>)
  @@ ("https://" :> <<"h", "t", "t", "p", "s", ":", "/", "/">>)
  @@ ("http://" :> <<"h", "t", "t", "p", ":", "/", "/">>)
  @@ ("example.com" :> <<"e", "x", "a", "m", "p", "l", "e", ".", "c", "o", "m">>)
  @@ ("mcp" :> <<"m", "c", "p">>)
  @@ ("stream" :> <<"s", "t", "r", "e", "a", "m">>)
  @@ ("localhost" :> <<"l", "o", "c", "a", "l", "h", "o", "s", "t">>)
  @@ ("npx" :> <<"n", "p", "x">>)
  @@ ("stdio" :> <<"s", "t", "d", "i", "o">>)
  @@ ("http" :> <<"h", "t", "t", "p">>)
  @@ ("streamable-http" :> <<"s", "t", "r", "e", "a", "m", "a", "b", "l", "e", "-", "h", "t", "t", "p">>)
  @@ ("sse" :> <<"s", "s", "e">>)
  @@ ("42" :> <<"4", "2">>)
  @@ ("Invalid MCP server configuration for " :> <<"I", "n", "v", "a", "l", "i", "d", " ", "M", "C", "P", " ", "s", "e", "r", "v", "e", "r", " ", "c", "o", "n", "f", "i", "g", "u", "r", "a", "t", "i", "o", "n", " ", "f", "o", "r", " ">>)
  @@ (": command is required and must be a string" :> <<":", " ", "c", "o", "m", "m", "a", "n", "d", " ", "i", "s", " ", "r", "e", "q", "u", "i", "r", "e", "d", " ", "a", "n", "d", " ", "m", "u", "s", "t", " ", "b", "e", " ", "a", " ", "s", "t", "r", "i", "n", "g">>)
  @@ (": args must be an array" :> <<":", " ", "a", "r", "g", "s", " ", "m", "u", "s", "t", " ", "b", "e", " ", "a", "n", " ", "a", "r", "r", "a", "y">>)
  @@ (": env must be an object" :> <<":", " ", "e", "n", "v", " ", "m", "u", "s", "t", " ", "b", "e", " ", "a", "n", " ", "o", "b", "j", "e", "c", "t">>)
  @@ (": disabled must be a boolean" :> <<":", " ", "d", "i", "s", "a", "b", "l", "e", "d", " ", "m", "u", "s", "t", " ", "b", "e", " ", "a", " ", "b", "o", "o", "l", "e", "a", "n">>)
  @@ (": autoApprove must be an array" :> <<":", " ", "a", "u", "t", "o", "A", "p", "p", "r", "o", "v", "e", " ", "m", "u", "s", "t", " ", "b", "e", " ", "a", "n", " ", "a", "r", "r", "a", "y">>)
  @@ ("Invalid JSON in MCP configuration file: " :> <<"I", "n", "v", "a", "l", "i", "d", " ", "J", "S", "O", "N", " ", "i", "n", " ", "M", "C", "P", " ", "c", "o", "n", "f", "i", "g", "u", "r", "a", "t", "i", "o", "n", " ", "f", "i", "l", "e", ":", " ">>)
  @@ ("Invalid MCP configuration: mcpServers must be an object" :> <<"I", "n", "v", "a", "l", "i", "d", " ", "M", "C", "P", " ", "c", "o", "n", "f", "i", "g", "u", "r", "a", "t", "i", "o", "n", ":", " ", "m", "c", "p", "S", "e", "r", "v", "e", "r", "s", " ", "m", "u", "s", "t", " ", "b", "e", " ", "a", "n", " ", "o", "b", "j", "e", "c", "t">>)
  @@ ("not-an-array" :> <<"n", "o", "t", "-", "a", "n", "-", "a", "r", "r", "a", "y">>)
  @@ ("not-an-object" :> <<"n", "o", "t", "-", "a", "n", "-", "o", "b", "j", "e", "c", "t">>)
  @@ ("not-a-boolean" :> <<"n", "o", "t", "-", "a", "-", "b", "o", "o", "l", "e", "a", "n">>)
  @@ ("://" :> <<":", "/", "/">>)
  @@ ("command" :> <<"c", "o", "m", "m", "a", "n", "d">>)
  @@ ("Connection failed" :> <<"C", "o", "n", "n", "e", "c", "t", "i", "o", "n", " ", "f", "a", "i", "l", "e", "d">>)
  @@ ("Operation timeout" :> <<"O", "p", "e", "r", "a", "t", "i", "o", "n", " ", "t", "i", "m", "e", "o", "u", "t">>)
  @@ ("Invalid protocol" :> <<"I", "n", "v", "a", "l", "i", "d", " ", "p", "r", "o", "t", "o", "c", "o", "l">>)
  @@ ("Protocol error" :> <<"P", "r", "o", "t", "o", "c", "o", "l", " ", "e", "r", "r", "o", "r">>)
  @@ ("Configuration error" :> <<"C", "o", "n", "f", "i", "g", "u", "r", "a", "t", "i", "o", "n", " ", "e", "r", "r", "o", "r">>)
  @@ ("Unknown error" :> <<"U", "n", "k", "n", "o", "w", "n", " ", "e", "r", "r", "o", "r">>)
  @@ ("connection error" :> <<"c", "o", "n", "n", "e", "c", "t", "i", "o", "n", " ", "e", "r", "r", "o", "r">>)
  @@ ("Unauthorized" :> <<"U", "n", "a", "u", "t", "h", "o", "r", "i", "z", "e", "d">>)
  @@ ("Test error" :> <<"T", "e", "s", "t", " ", "e", "r", "r", "o", "r">>)
  @@ ("Connection timeout" :> <<"C", "o", "n", "n", "e", "c", "t", "i", "o", "n", " ", "t", "i", "m", "e", "o", "u", "t">>)
  @@ ("Request TIMEOUT on connection" :> <<"R", "e", "q", "u", "e", "s", "t", " ", "T", "I", "M", "E", "O", "U", "T", " ", "o", "n", " ", "c", "o", "n", "n", "e", "c", "t", "i", "o", "n">>)
  @@ ("read ECONNRESET" :> <<"r", "e", "a", "d", " ", "E", "C", "O", "N", "N", "R", "E", "S", "E", "T">>)
  @@ ("econnreset" :> <<"e", "c", "o", "n", "n", "r", "e", "s", "e", "t">>)
  @@ ("Network unreachable" :> <<"N", "e", "t", "w", "o", "r", "k", " ", "u", "n", "r", "e", "a", "c", "h", "a", "b", "l", "e">>)
  @@ ("Failed to get toolsets" :> <<"F", "a", "i", "l", "e", "d", " ", "t", "o", " ", "g", "e", "t", " ", "t", "o", "o", "l", "s", "e", "t", "s">>)
  @@ ("not initialized" :> <<"n", "o", "t", " ", "i", "n", "i", "t", "i", "a", "l", "i", "z", "e", "d">>)

\* String.prototype.toLowerCase on the letters that occur in the model
UpperToLower == [A |-> "a", B |-> "b", C |-> "c", D |-> "d", E |-> "e", F |-> "f", G |-> "g", H |-> "h", I |-> "i", J |-> "j", K |-> "k", L |-> "l", M |-> "m", N |-> "n", O |-> "o", P |-> "p", Q |-> "q", R |-> "r", S |-> "s", T |-> "t", U |-> "u", V |-> "v", W |-> "w", X |-> "x", Y |-> "y", Z |-> "z"]

\* the text of a string given by its pieces
RECURSIVE text(_)
text(pieces) ==
  IF pieces = <<>> THEN <<>> ELSE Chars[Head(pieces)] \o text(Tail(pieces))

toLowerCase(s) ==
  [i \in 1..Len(s) |-> IF s[i] \in DOMAIN UpperToLower THEN UpperToLower[s[i]] ELSE s[i]]

\* String.prototype.includes
includes(hay, needle) ==
  \E i \in 0..(Len(hay) - Len(needle)) : SubSeq(hay, i + 1, i + Len(needle)) = needle

\* String.prototype.startsWith
startsWith(s, prefix) ==
  Len(prefix) <= Len(s) /\ SubSeq(s, 1, Len(prefix)) = prefix

\* ----------------------------------------------------------------- errors
\* An Error object: message, MCPError.type ("undefined" when not set),
\* MCPError.retryable (<<>> when not set, <<b>> when set to b), the code
\* property of a Node system error (<<>> when not set) and the stack,
\* represented by the message of the error that the stack was taken at.
Error(msg) ==
  [message |-> msg, type |-> "undefined", retryable |-> <<>>, code |-> <<>>, stack |-> msg]

\* the absence of an error (the optional originalError not passed, no error raised)
NoError ==
  [message |-> <<>>, type |-> "none", retryable |-> <<>>, code |-> <<>>, stack |-> <<>>]

createMCPError(message, type, originalError, retryable) ==
  [message |-> message, type |-> type, retryable |-> <<retryable>>, code |-> <<>>,
   stack |-> IF originalError = NoError THEN message ELSE originalError.stack]

retryableMessages ==
  {"ECONNREFUSED", "ECONNRESET", "ETIMEDOUT", "ENOTFOUND", "ENETUNREACH", "EHOSTUNREACH",
   "EPIPE", "timeout", "connection"}

\* isRetryable, had it looked at the flag only when nothing on the list matches
isRetryableListFirst(error) ==
  \/ \E msg \in retryableMessages :
       \/ includes(toLowerCase(text(error.message)), toLowerCase(Chars[msg]))
       \/ includes(text(error.code), Chars[msg])
  \/ error.retryable = <<TRUE>>

isRetryable(error) ==
  IF error.retryable # <<>>
  THEN error.retryable[1] = TRUE
  ELSE \E msg \in retryableMessages :
         \/ includes(toLowerCase(text(error.message)), toLowerCase(Chars[msg]))
         \/ includes(text(error.code), Chars[msg])

\* categorizeError, had it tested for a timeout before a connection failure
categorizeErrorTimeoutFirst(error) ==
  LET message == toLowerCase(text(error.message)) IN
  IF includes(message, Chars["timeout"]) \/ includes(message, Chars["etimedout"])
  THEN "timeout"
  ELSE IF includes(message, Chars["connection"]) \/ includes(message, Chars["econnrefused"])
  THEN "connection"
  ELSE IF includes(message, Chars["config"]) \/ includes(message, Chars["configuration"])
  THEN "configuration"
  ELSE "protocol"

categorizeError(error) ==
  LET message == toLowerCase(text(error.message)) IN
  IF includes(message, Chars["connection"]) \/ includes(message, Chars["econnrefused"])
  THEN "connection"
  ELSE IF includes(message, Chars["timeout"]) \/ includes(message, Chars["etimedout"])
  THEN "timeout"
  ELSE IF includes(message, Chars["config"]) \/ includes(message, Chars["configuration"])
  THEN "configuration"
  ELSE IF includes(message, Chars["protocol"]) \/ includes(message, Chars["invalid"])
  THEN "protocol"
  ELSE "protocol"

\* ------------------------------------------------------------------ tools
\* Discovered tools are records; an optional property that is not set is a
\* field the record does not have.  Function values are "h1", "h2"; "notfn"
\* is a truthy value that is not a function.
Get(obj, field) == IF field \in DOMAIN obj THEN obj[field] ELSE "undefined"

Functions == {"h1", "h2"}

\* The tools of the tests.  Their inputSchema values: a simple object schema,
\* one that carries the _def tag of a Zod schema, and a nested one.
ToolReadFs ==
  [name |-> "read_file", description |-> "Read a file",
   inputSchema |-> [type |-> "object", properties |-> [param1 |-> [type |-> "string"]]],
   handler |-> "h1", server |-> "fs"]
ToolReadWeb ==
  [name |-> "read_file", description |-> "Read a page", execute |-> "h2", server |-> "web"]
ToolTest ==
  [name |-> "test_tool", description |-> "Test tool", execute |-> "h1"]
ToolNoHandler ==
  [name |-> "test_tool", description |-> "Tool without handler",
   inputSchema |-> [_def |-> [typeName |-> "ZodObject"], type |-> "object",
                    properties |-> [param1 |-> [type |-> "string"]]]]
ToolNotFn ==
  [name |-> "test_tool", description |-> "Test tool",
   inputSchema |-> [type |-> "object",
                    properties |-> [user |-> [type |-> "object",
                                              properties |-> [name |-> [type |-> "string"],
                                                              email |-> [type |-> "string"]]]]],
   execute |-> "notfn", handler |-> "h2"]

\* what handlers resolve to
Values == {"success", "undefined"}

\* failures raised by the transport layer (getTools, handlers, disconnect)
EnvErrors == {Error(<<"ECONNREFUSED">>), Error(<<"Tool execution failed">>)}

\* sanitizeToolSchema, had it removed only the schemas that carry the _def tag
sanitizeToolSchemaZodOnly(tool) ==
  IF "inputSchema" \in DOMAIN tool /\ "_def" \in DOMAIN tool.inputSchema
  THEN [f \in DOMAIN tool \ {"inputSchema"} |-> tool[f]]
  ELSE tool

sanitizeToolSchema(tool) ==
  [f \in DOMAIN tool \ {"inputSchema"} |-> tool[f]]

sanitizeTools(tools) ==
  [i \in 1..Len(tools) |-> sanitizeToolSchema(tools[i])]

\* find, had it kept the last tool that matches
findLastMatch(tools, toolName) ==
  IF \E i \in 1..Len(tools) : tools[i].name = toolName
  THEN CHOOSE i \in 1..Len(tools) :
         /\ tools[i].name = toolName
         /\ \A j \in (i + 1)..Len(tools) : tools[j].name # toolName
  ELSE 0

\* Array.prototype.find with the predicate t.name === toolName: the index of
\* the first match, 0 when there is none
find(tools, toolName) ==
  IF \E i \in 1..Len(tools) : tools[i].name = toolName
  THEN CHOOSE i \in 1..Len(tools) :
         /\ tools[i].name = toolName
         /\ \A j \in 1..(i - 1) : tools[j].name # toolName
  ELSE 0

\* (tool as any).execute || (tool as any).handler
handlerOf(tool) ==
  IF Get(tool, "execute") # "undefined" THEN tool.execute ELSE Get(tool, "handler")

\* ------------------------------------------------------------------ state
VARIABLES
  mcpConfiguration,  \* MCPManager.mcpConfiguration: id of the session object, NoSession for undefined
  servers,           \* MCPManager.servers: the keys of the Map
  isInitialized,     \* MCPManager.isInitialized
  reconnectTimers,   \* MCPManager.reconnectTimers: the timers held in the Map
  sessions,          \* the MCPConfiguration objects constructed so far
  sessionServers,    \* the servers the object held in mcpConfiguration was constructed with
  pendingTimers,     \* timers scheduled in the event loop and not yet fired or cleared
  rc,                \* position of the reconnect() call that is in progress
  last               \* the settlement of the call that settled last

VARIABLES
  hr,                \* the MCPErrorHandler.handleWithRetry call that is in progress
  wt,                \* the MCPErrorHandler.wrapWithTimeout call that is in progress
  sa,                \* AgentManagerImpl.createSubAgents: its position and what it has built
  cf,                \* MCPConfigLoader.loadConfig and the provider parameters built from it
  eh,                \* the error MCPErrorHandler.handleError was given and what it made of it
  cc,                \* the calls in flight on one initialized manager
  mi,                \* the MCPManager instances of one process
  sn                 \* the tool objects in memory and the sanitizer call made last

vars ==
  <<mcpConfiguration, servers, isInitialized, reconnectTimers, sessions, sessionServers,
    pendingTimers, rc, last, hr, wt, sa, cf, eh, cc, mi, sn>>

\* the variables the operations of MCPManager do not touch
helperVars == <<hr, wt, sa, cf, eh, cc, mi, sn>>

\* no call of the helper has been made
NoCall == [pc |-> "idle"]

Names == {"fs", "web"}
SessionIds == 1..MaxSessions
NoSession == 0

\* MCPServersConfig.mcpServers: provider name -> descriptor
ConfigMaps == UNION {[D -> [disabled : BOOLEAN]] : D \in SUBSET Names}

\* An MCPConfiguration object: "unborn" until it is constructed, then
\* "constructed", "connected" after a getTools() that succeeded, "released"
\* after a disconnect() that succeeded; releases counts the disconnect() calls
\* that succeeded on it.
Constructed == {s \in SessionIds : sessions[s].state # "unborn"}

\* a session is live from its construction until it is released, and again
\* after a getTools() that succeeded on it
Live(s) == sessions[s].state \in {"constructed", "connected"}

\* The settlement of a call: the operation and the toolName and params it was
\* given, "ok" with the value it resolved to or "error" with the error it
\* rejected with ("pending" while reconnect() waits), the error its catch block
\* caught, the tool list it discovered, the handler invocations it made and
\* the toolsets it returned.
Outcome(op, status, error, caught) ==
  [op |-> op, toolName |-> "", params |-> "none", status |-> status, value |-> "none",
   error |-> error, caught |-> caught, tools |-> <<>>, calls |-> <<>>, toolsets |-> <<>>]

\* rc: no reconnect() in progress; while one waits, the attempt that failed
\* and the delay (ms) of the timer it waits for
Idle == [pc |-> "idle", attempt |-> 0, delay |-> 0]

Init ==
  /\ mcpConfiguration = NoSession
  /\ servers = {}
  /\ isInitialized = FALSE
  /\ reconnectTimers = {}
  /\ sessions = [s \in SessionIds |-> [state |-> "unborn", releases |-> 0]]
  /\ sessionServers = {}
  /\ pendingTimers = {}
  /\ rc = Idle
  /\ last = Outcome("constructor", "ok", NoError, NoError)
  /\ hr = NoCall
  /\ wt = NoCall
  /\ sa = NoCall
  /\ cf = NoCall
  /\ eh = NoCall
  /\ cc = NoCall
  /\ mi = NoCall
  /\ sn = [pc |-> "idle",
           objects |-> <<ToolReadFs, ToolReadWeb, ToolTest, ToolNoHandler, ToolNotFn>>]

\* serverName is "" when the argument is not given
isConnected(serverName) ==
  IF ~isInitialized \/ mcpConfiguration = NoSession THEN FALSE
  ELSE IF serverName # "" THEN serverName \in servers
  ELSE TRUE

\* -------------------------------------------------------- initializeServers
enabledNames(config) == {n \in DOMAIN config : ~config[n].disabled}

\* new MCPConfiguration({servers}): the next unused object
NewSession ==
  CHOOSE s \in SessionIds :
    sessions[s].state = "unborn" /\ \A t \in 1..(s - 1) : sessions[t].state # "unborn"

\* initializeServers, had it set the flag before the constructor can throw
initializeServersFlagFirst(config, ctor) ==
  /\ UNCHANGED <<reconnectTimers, pendingTimers, rc>>
  /\ IF DOMAIN config = {}
     THEN /\ UNCHANGED <<mcpConfiguration, servers, isInitialized, sessions, sessionServers>>
          /\ last' = Outcome("initializeServers", "ok", NoError, NoError)
     ELSE /\ servers' = servers \cup enabledNames(config)
          /\ isInitialized' = TRUE
          /\ IF ctor = NoError
             THEN /\ \E s \in SessionIds : sessions[s].state = "unborn"
                  /\ sessions' = [sessions EXCEPT ![NewSession] =
                                    [state |-> "constructed", releases |-> 0]]
                  /\ sessionServers' = enabledNames(config)
                  /\ mcpConfiguration' = NewSession
                  /\ last' = Outcome("initializeServers", "ok", NoError, NoError)
             ELSE /\ UNCHANGED <<mcpConfiguration, sessions, sessionServers>>
                  /\ last' = Outcome("initializeServers", "error",
                                     createMCPError(<<"Failed to initialize MCP servers">>,
                                                    "configuration", ctor, FALSE),
                                     ctor)

\* What initializeServers does to the manager.  config is the argument, or
\* what configLoader.loadConfig() resolved to, as the map from provider name to
\* whether the descriptor is disabled; ctor is what the MCPConfiguration
\* constructor throws (NoError: nothing).
initializeServers(config, ctor) ==
  /\ UNCHANGED <<reconnectTimers, pendingTimers, rc>>
  /\ IF DOMAIN config = {}
     THEN /\ UNCHANGED <<mcpConfiguration, servers, isInitialized, sessions, sessionServers>>
          /\ last' = Outcome("initializeServers", "ok", NoError, NoError)
     ELSE /\ servers' = servers \cup enabledNames(config)
          /\ IF ctor = NoError
             THEN /\ \E s \in SessionIds : sessions[s].state = "unborn"
                  /\ sessions' = [sessions EXCEPT ![NewSession] =
                                    [state |-> "constructed", releases |-> 0]]
                  /\ sessionServers' = enabledNames(config)
                  /\ mcpConfiguration' = NewSession
                  /\ isInitialized' = TRUE
                  /\ last' = Outcome("initializeServers", "ok", NoError, NoError)
             ELSE /\ UNCHANGED <<mcpConfiguration, isInitialized, sessions, sessionServers>>
                  /\ last' = Outcome("initializeServers", "error",
                                     createMCPError(<<"Failed to initialize MCP servers">>,
                                                    "configuration", ctor, FALSE),
                                     ctor)

InitializeServers(config, ctor) ==
  /\ UNCHANGED helperVars
  /\ initializeServers(config, ctor)

\* initializeServers() without argument when configLoader.loadConfig() rejects
InitializeServersLoadFails(loadError) ==
  /\ UNCHANGED <<mcpConfiguration, servers, isInitialized, reconnectTimers, sessions,
                 sessionServers, pendingTimers, rc, helperVars>>
  /\ last' = Outcome("initializeServers", "error",
                     createMCPError(<<"Failed to initialize MCP servers">>, "configuration",
                                    loadError, FALSE),
                     loadError)

\* ------------------------------------------------ the MCPConfiguration object
\* what getTools() settles with: a tool list, or a failure
Discoveries ==
  {[ok |-> TRUE, tools |-> tl, error |-> NoError] :
     tl \in {<<>>, <<ToolReadFs, ToolNotFn, ToolReadWeb>>, <<ToolNoHandler, ToolTest>>}}
    \cup {[ok |-> FALSE, tools |-> <<>>, error |-> Error(<<"ECONNREFUSED">>)]}

\* what a handler settles with
HandlerOutcomes ==
  {[ok |-> TRUE, value |-> v, error |-> NoError] : v \in Values}
    \cup {[ok |-> FALSE, value |-> "none", error |-> e] : e \in EnvErrors}

\* what the MCPConfiguration constructor throws (NoError: nothing)
CtorOutcomes == {NoError, Error(<<"Invalid configuration">>)}

\* what MCPConfiguration.disconnect() settles with
ReleaseOutcomes == {NoError, Error(<<"Disconnect failed">>)}

\* getTools() on session s: a success connects the providers (again)
GetTools(ss, s, d) ==
  IF d.ok THEN [ss EXCEPT ![s].state = "connected"] ELSE ss

\* disconnect() on session s, rejecting with r (NoError: resolving): one more
\* release; a rejected one leaves the session as it was
Release(ss, s, r) ==
  IF r = NoError
  THEN [ss EXCEPT ![s] = [state |-> "released", releases |-> @.releases + 1]]
  ELSE ss

\* -------------------------------------------------------- getAvailableTools
\* ensureInitialized, had it let every call through
ensureInitializedAlways == NoError

ensureInitialized ==
  IF ~isInitialized
  THEN Error(<<"MCP Manager not initialized. Call initializeServers() first.">>)
  ELSE NoError

\* the settlement of getAvailableTools() when getTools() settles with d
getAvailableTools(d) ==
  IF ensureInitialized # NoError
  THEN [status |-> "error", tools |-> <<>>, error |-> ensureInitialized, caught |-> NoError]
  ELSE IF mcpConfiguration = NoSession
  THEN [status |-> "ok", tools |-> <<>>, error |-> NoError, caught |-> NoError]
  ELSE IF d.ok
  THEN [status |-> "ok", tools |-> sanitizeTools(d.tools), error |-> NoError,
        caught |-> NoError]
  ELSE [status |-> "error", tools |-> <<>>,
        error |-> createMCPError(<<"Failed to get available tools">>, "protocol", d.error, FALSE),
        caught |-> d.error]

\* the session objects after a getAvailableTools() whose getTools() settles with d
SessionsAfterDiscovery(d) ==
  IF isInitialized /\ mcpConfiguration # NoSession
  THEN GetTools(sessions, mcpConfiguration, d)
  ELSE sessions

GetAvailableTools(d) ==
  /\ UNCHANGED <<mcpConfiguration, servers, isInitialized, reconnectTimers, sessionServers,
                 pendingTimers, rc, helperVars>>
  /\ sessions' = SessionsAfterDiscovery(d)
  /\ LET a == getAvailableTools(d) IN
       last' = [Outcome("getAvailableTools", a.status, a.error, a.caught)
                  EXCEPT !.tools = a.tools]

\* -------------------------------------------------------------- getToolsets
\* (tool as any).server || 'default'
serverOf(tool) ==
  IF Get(tool, "server") \in {"undefined", ""} THEN "default" ELSE tool.server

\* groupByServer, had it put each tool at the front of its group
RECURSIVE groupNewestFirst(_, _)
groupNewestFirst(tools, acc) ==
  IF tools = <<>> THEN acc
  ELSE LET tool == Head(tools)
           at == {i \in 1..Len(acc) : acc[i].server = serverOf(tool)}
       IN groupNewestFirst(Tail(tools),
                           IF at = {}
                           THEN Append(acc, [server |-> serverOf(tool), tools |-> <<tool>>])
                           ELSE [acc EXCEPT ![CHOOSE i \in at : TRUE].tools = <<tool>> \o @])

\* groupByServer, had it opened a group for every tool
groupPerTool(tools, acc) ==
  acc \o [i \in 1..Len(tools) |-> [server |-> serverOf(tools[i]), tools |-> <<tools[i]>>]]

\* the forEach of getToolsets: the entries of toolsetMap, in insertion order,
\* once the tools have been put in; acc is the entries so far
RECURSIVE groupByServer(_, _)
groupByServer(tools, acc) ==
  IF tools = <<>> THEN acc
  ELSE LET tool == Head(tools)
           at == {i \in 1..Len(acc) : acc[i].server = serverOf(tool)}
       IN groupByServer(Tail(tools),
                        IF at = {}
                        THEN Append(acc, [server |-> serverOf(tool), tools |-> <<tool>>])
                        ELSE [acc EXCEPT ![CHOOSE i \in at : TRUE].tools = Append(@, tool)])

\* the settlement of getToolsets() when getTools() settles with d
getToolsets(d) ==
  IF ensureInitialized # NoError
  THEN [status |-> "error", toolsets |-> <<>>, tools |-> <<>>, error |-> ensureInitialized,
        caught |-> NoError]
  ELSE IF mcpConfiguration = NoSession
  THEN [status |-> "ok", toolsets |-> <<>>, tools |-> <<>>, error |-> NoError,
        caught |-> NoError]
  ELSE LET a == getAvailableTools(d) IN
       IF a.status = "ok"
       THEN [status |-> "ok", toolsets |-> groupByServer(a.tools, <<>>), tools |-> a.tools,
             error |-> NoError, caught |-> NoError]
       ELSE [status |-> "error", toolsets |-> <<>>, tools |-> <<>>,
             error |-> createMCPError(<<"Failed to get toolsets">>, "protocol", a.error, FALSE),
             caught |-> a.error]

\* what getTools() may settle with when getToolsets() asks: also a list of one
\* provider in which one tool names its origin and the other does not
ToolsetDiscoveries ==
  Discoveries \cup {[ok |-> TRUE, tools |-> <<ToolReadFs, ToolTest>>, error |-> NoError]}

GetToolsets(d) ==
  /\ UNCHANGED <<mcpConfiguration, servers, isInitialized, reconnectTimers, sessionServers,
                 pendingTimers, rc, helperVars>>
  /\ sessions' = SessionsAfterDiscovery(d)
  /\ LET g == getToolsets(d) IN
       last' = [Outcome("getToolsets", g.status, g.error, g.caught)
                  EXCEPT !.tools = g.tools, !.toolsets = g.toolsets]

\* ---------------------------------------------------------- executeToolCall
\* resolveAndInvoke, had it returned without a value when no tool matches
resolveAndInvokeOrReturn(tools, toolName, params, h) ==
  LET i == find(tools, toolName) IN
  IF i = 0
  THEN [thrown |-> NoError, value |-> "undefined", calls |-> <<>>]
  ELSE IF handlerOf(tools[i]) \notin Functions
  THEN [thrown |-> Error(<<"Tool ", toolName, " does not have a handler">>),
        value |-> "none", calls |-> <<>>]
  ELSE [thrown |-> h.error, value |-> h.value,
        calls |-> <<[tool |-> i, handler |-> handlerOf(tools[i]), params |-> params,
                     returned |-> h.value]>>]

\* The try block of executeToolCall once getAvailableTools() has resolved to
\* tools: what it throws (NoError: nothing), the value it returns and the
\* handler invocations it makes, the handler settling with h.
resolveAndInvoke(tools, toolName, params, h) ==
  LET i == find(tools, toolName) IN
  IF i = 0
  THEN [thrown |-> Error(<<"Tool ", toolName, " not found">>), value |-> "none",
        calls |-> <<>>]
  ELSE IF handlerOf(tools[i]) \notin Functions
  THEN [thrown |-> Error(<<"Tool ", toolName, " does not have a handler">>),
        value |-> "none", calls |-> <<>>]
  ELSE [thrown |-> h.error, value |-> h.value,
        calls |-> <<[tool |-> i, handler |-> handlerOf(tools[i]), params |-> params,
                     returned |-> h.value]>>]

\* the settlement of executeToolCall(toolName, params) when getTools() settles
\* with d and the handler, if it is invoked, with h
executeToolCall(toolName, params, d, h) ==
  IF ensureInitialized # NoError
  THEN [status |-> "error", value |-> "none", error |-> ensureInitialized,
        caught |-> NoError, calls |-> <<>>, tools |-> <<>>]
  ELSE
    LET a == getAvailableTools(d)
        body ==
          IF a.status = "error"
          THEN [thrown |-> a.error, value |-> "none", calls |-> <<>>]
          ELSE resolveAndInvoke(a.tools, toolName, params, h)
    IN IF body.thrown = NoError
       THEN [status |-> "ok", value |-> body.value, error |-> NoError, caught |-> NoError,
             calls |-> body.calls, tools |-> a.tools]
       ELSE [status |-> "error", value |-> "none",
             error |-> createMCPError(<<"Failed to execute tool call ", toolName>>,
                                      "protocol", body.thrown, FALSE),
             caught |-> body.thrown, calls |-> body.calls, tools |-> a.tools]

ExecuteToolCall(toolName, params, d, h) ==
  /\ UNCHANGED <<mcpConfiguration, servers, isInitialized, reconnectTimers, sessionServers,
                 pendingTimers, rc, helperVars>>
  /\ sessions' = SessionsAfterDiscovery(d)
  /\ LET e == executeToolCall(toolName, params, d, h) IN
       last' = [op |-> "executeToolCall", toolName |-> toolName, params |-> params,
                status |-> e.status, value |-> e.value, error |-> e.error,
                caught |-> e.caught, tools |-> e.tools, calls |-> e.calls,
                toolsets |-> <<>>]

\* --------------------------------------------------------------- disconnect
\* disconnect, had it required a session to release
DisconnectRequiresSession(r) ==
  /\ pendingTimers' = pendingTimers \ reconnectTimers
  /\ reconnectTimers' = {}
  /\ UNCHANGED <<rc, helperVars>>
  /\ IF mcpConfiguration # NoSession
     THEN /\ sessions[mcpConfiguration].releases < MaxReleases
          /\ sessions' = Release(sessions, mcpConfiguration, r)
     ELSE /\ r = NoError
          /\ UNCHANGED sessions
  /\ IF r = NoError /\ mcpConfiguration # NoSession
     THEN /\ mcpConfiguration' = NoSession
          /\ sessionServers' = {}
          /\ servers' = {}
          /\ isInitialized' = FALSE
          /\ last' = Outcome("disconnect", "ok", NoError, NoError)
     ELSE /\ UNCHANGED <<mcpConfiguration, sessionServers, servers, isInitialized>>
          /\ last' = Outcome("disconnect", "error",
                             createMCPError(<<"Failed to disconnect MCP servers">>,
                                            "connection",
                                            IF r = NoError
                                            THEN Error(<<"MCP configuration not initialized">>)
                                            ELSE r,
                                            FALSE),
                             r)

\* disconnect, had it cleared the manager before the release settled
DisconnectClearsFirst(r) ==
  /\ pendingTimers' = pendingTimers \ reconnectTimers
  /\ reconnectTimers' = {}
  /\ UNCHANGED <<rc, helperVars>>
  /\ IF mcpConfiguration # NoSession
     THEN /\ sessions[mcpConfiguration].releases < MaxReleases
          /\ sessions' = Release(sessions, mcpConfiguration, r)
     ELSE /\ r = NoError
          /\ UNCHANGED sessions
  /\ mcpConfiguration' = NoSession
  /\ sessionServers' = {}
  /\ servers' = {}
  /\ isInitialized' = FALSE
  /\ last' = IF r = NoError
             THEN Outcome("disconnect", "ok", NoError, NoError)
             ELSE Outcome("disconnect", "error",
                          createMCPError(<<"Failed to disconnect MCP servers">>,
                                         "connection", r, FALSE),
                          r)

\* r is what mcpConfiguration.disconnect() rejects with, if it is called
\* (NoError: it resolves)
Disconnect(r) ==
  /\ pendingTimers' = pendingTimers \ reconnectTimers
  /\ reconnectTimers' = {}
  /\ UNCHANGED <<rc, helperVars>>
  /\ IF mcpConfiguration # NoSession
     THEN /\ sessions[mcpConfiguration].releases < MaxReleases
          /\ sessions' = Release(sessions, mcpConfiguration, r)
     ELSE /\ r = NoError
          /\ UNCHANGED sessions
  /\ IF r = NoError
     THEN /\ mcpConfiguration' = NoSession
          /\ sessionServers' = {}
          /\ servers' = {}
          /\ isInitialized' = FALSE
          /\ last' = Outcome("disconnect", "ok", NoError, NoError)
     ELSE /\ UNCHANGED <<mcpConfiguration, sessionServers, servers, isInitialized>>
          /\ last' = Outcome("disconnect", "error",
                             createMCPError(<<"Failed to disconnect MCP servers">>,
                                            "connection", r, FALSE),
                             r)

\* ---------------------------------------------------------------- reconnect
\* connectWithRetry, had its test let one more attempt through
connectWithRetryOnceMore(attempt, d, ss) ==
  LET error == IF mcpConfiguration = NoSession
               THEN Error(<<"MCP configuration not initialized">>)
               ELSE d.error
      failure == createMCPError(<<"Failed to connect after multiple attempts">>,
                                "connection", error, TRUE)
  IN
  /\ sessions' = IF mcpConfiguration = NoSession THEN ss ELSE GetTools(ss, mcpConfiguration, d)
  /\ UNCHANGED reconnectTimers
  /\ IF error = NoError
     THEN /\ rc' = Idle
          /\ pendingTimers' = pendingTimers \ {"backoff"}
          /\ last' = Outcome("reconnect", "ok", NoError, NoError)
     ELSE IF attempt <= reconnectAttempts
     THEN /\ rc' = [pc |-> "waiting", attempt |-> attempt, delay |-> reconnectDelay]
          /\ pendingTimers' = pendingTimers \cup {"backoff"}
          /\ last' = Outcome("reconnect", "pending", NoError, error)
     ELSE /\ rc' = Idle
          /\ pendingTimers' = pendingTimers \ {"backoff"}
          /\ last' = Outcome("reconnect", "error",
                             createMCPError(<<"Failed to reconnect to MCP servers">>,
                                            "connection", failure, TRUE),
                             failure)

\* One pass of the loop of connectWithRetry, made on the session objects ss:
\* attempt number `attempt`, getTools() settling with d.  A failed attempt that
\* is not the last one schedules the backoff timer and waits for it; that timer
\* is not entered in reconnectTimers.
connectWithRetry(attempt, d, ss) ==
  LET error == IF mcpConfiguration = NoSession
               THEN Error(<<"MCP configuration not initialized">>)
               ELSE d.error
      failure == createMCPError(<<"Failed to connect after multiple attempts">>,
                                "connection", error, TRUE)
  IN
  /\ sessions' = IF mcpConfiguration = NoSession THEN ss ELSE GetTools(ss, mcpConfiguration, d)
  /\ UNCHANGED reconnectTimers
  /\ IF error = NoError
     THEN /\ rc' = Idle
          /\ pendingTimers' = pendingTimers \ {"backoff"}
          /\ last' = Outcome("reconnect", "ok", NoError, NoError)
     ELSE IF attempt < reconnectAttempts
     THEN /\ rc' = [pc |-> "waiting", attempt |-> attempt, delay |-> reconnectDelay]
          /\ pendingTimers' = pendingTimers \cup {"backoff"}
          /\ last' = Outcome("reconnect", "pending", NoError, error)
     ELSE /\ rc' = Idle
          /\ pendingTimers' = pendingTimers \ {"backoff"}
          /\ last' = Outcome("reconnect", "error",
                             createMCPError(<<"Failed to reconnect to MCP servers">>,
                                            "connection", failure, TRUE),
                             failure)

\* reconnect, had it released the session after the first attempt
ReconnectDiscoversFirst(r, d) ==
  /\ rc.pc = "idle"
  /\ r = NoError
  /\ UNCHANGED <<mcpConfiguration, servers, isInitialized, sessionServers, reconnectTimers,
                 helperVars>>
  /\ IF mcpConfiguration # NoSession
     THEN /\ sessions[mcpConfiguration].releases < MaxReleases
          /\ sessions' = Release(GetTools(sessions, mcpConfiguration, d), mcpConfiguration, r)
     ELSE UNCHANGED sessions
  /\ IF mcpConfiguration # NoSession /\ d.ok
     THEN /\ rc' = Idle
          /\ pendingTimers' = pendingTimers \ {"backoff"}
          /\ last' = Outcome("reconnect", "ok", NoError, NoError)
     ELSE /\ rc' = [pc |-> "waiting", attempt |-> 1, delay |-> reconnectDelay]
          /\ pendingTimers' = pendingTimers \cup {"backoff"}
          /\ last' = Outcome("reconnect", "pending", NoError,
                             IF mcpConfiguration = NoSession
                             THEN Error(<<"MCP configuration not initialized">>)
                             ELSE d.error)

\* reconnect() up to its first wait: releases the session when initialized
\* (r: what that release rejects with), then the first attempt (d)
Reconnect(r, d) ==
  /\ rc.pc = "idle"
  /\ UNCHANGED <<mcpConfiguration, servers, isInitialized, sessionServers, helperVars>>
  /\ IF isInitialized /\ mcpConfiguration # NoSession
     THEN /\ sessions[mcpConfiguration].releases < MaxReleases
          /\ IF r = NoError
             THEN connectWithRetry(1, d, Release(sessions, mcpConfiguration, r))
             ELSE /\ sessions' = Release(sessions, mcpConfiguration, r)
                  /\ UNCHANGED <<reconnectTimers, pendingTimers, rc>>
                  /\ last' = Outcome("reconnect", "error",
                                     createMCPError(<<"Failed to reconnect to MCP servers">>,
                                                    "connection", r, TRUE),
                                     r)
     ELSE /\ r = NoError
          /\ connectWithRetry(1, d, sessions)

\* the backoff timer of the waiting reconnect() fires: the next attempt
ReconnectTimerFires(d) ==
  /\ rc.pc = "waiting"
  /\ "backoff" \in pendingTimers
  /\ UNCHANGED <<mcpConfiguration, servers, isInitialized, sessionServers, helperVars>>
  /\ connectWithRetry(rc.attempt + 1, d, sessions)

\* ----------------------------------------------------------- specifications
\* the lifecycle of one manager: construction, discovery, release, reconnection
Next ==
  \/ \E config \in ConfigMaps, ctor \in CtorOutcomes :
       InitializeServers(config, ctor)
  \/ \E e \in {Error(<<"Invalid configuration">>)} : InitializeServersLoadFails(e)
  \/ \E d \in Discoveries : GetAvailableTools(d)
  \/ \E r \in ReleaseOutcomes : Disconnect(r)
  \/ \E r \in ReleaseOutcomes, d \in Discoveries : Reconnect(r, d)
  \/ \E d \in Discoveries : ReconnectTimerFires(d)

Spec == Init /\ [][Next]_vars

\* tool discovery and invocation on one manager
NextTools ==
  \/ \E config \in ConfigMaps : InitializeServers(config, NoError)
  \/ \E d \in Discoveries : GetAvailableTools(d)
  \/ \E toolName \in {"read_file", "test_tool", "unknown_tool"}, params \in {"p1", "p2"},
        d \in Discoveries, h \in HandlerOutcomes :
       ExecuteToolCall(toolName, params, d, h)
  \/ \E d \in ToolsetDiscoveries : GetToolsets(d)
  \/ \E r \in ReleaseOutcomes : Disconnect(r)

SpecTools == Init /\ [][NextTools]_vars

\* the six operations of one manager, each call running to its settlement or,
\* for reconnect(), to its next wait
NextOperations ==
  LET found == {d \in Discoveries : ~d.ok \/ d.tools = <<ToolNoHandler, ToolTest>>} IN
  \/ \E config \in {c \in ConfigMaps : DOMAIN c \subseteq {"fs"}}, ctor \in CtorOutcomes :
       InitializeServers(config, ctor)
  \/ \E e \in {Error(<<"Invalid configuration">>)} : InitializeServersLoadFails(e)
  \/ \E d \in found : GetAvailableTools(d)
  \/ \E d \in found : GetToolsets(d)
  \/ \E d \in found, h \in {o \in HandlerOutcomes : o.ok} :
       ExecuteToolCall("test_tool", "p1", d, h)
  \/ \E r \in ReleaseOutcomes : Disconnect(r)
  \/ \E r \in ReleaseOutcomes, d \in found : Reconnect(r, d)
  \/ \E d \in found : ReconnectTimerFires(d)

SpecOperations == Init /\ [][NextOperations]_vars

\* ------------------------------------------- MCPErrorHandler.handleWithRetry
MAX_RETRY_ATTEMPTS == 3
BASE_RETRY_DELAY == 1000
MAX_RETRY_DELAY == 30000

\* options.x || d for an optional number: <<>> is undefined, 0 is falsy
OrElse(x, d) == IF x = <<>> \/ x[1] = 0 THEN d ELSE x[1]

\* Math.min
MathMin(a, b) == IF a <= b THEN a ELSE b

\* what operation() settles with
RetryOutcomes ==
  {[ok |-> TRUE, value |-> "success", error |-> NoError],
   [ok |-> FALSE, value |-> "none", error |-> Error(<<"ECONNREFUSED">>)],
   [ok |-> FALSE, value |-> "none", error |-> Error(<<"Invalid configuration">>)],
   [ok |-> FALSE, value |-> "none",
    error |-> createMCPError(<<"Failed to reconnect to MCP servers">>, "connection", NoError, TRUE)]}

\* The operation is a mock: its i-th invocation settles with script[i], and the
\* invocations after the script with its last entry.
scriptAt(script, i) == script[MathMin(i, Len(script))]

\* an entry of the record of what a call did, in order: "operation" (an
\* invocation of attempt `attempt` that settled with `error`), "onRetry" (the
\* callback, with its two arguments), "delay" (setTimeout of ms), "elapsed"
\* (that timer fired)
Event(ev, attempt, error, ms) == [ev |-> ev, attempt |-> attempt, error |-> error, ms |-> ms]

\* the rethrow test, had it looked at the attempt number only
rethrowAtLastAttemptOnly(error, attempt, maxAttempts) ==
  attempt = maxAttempts

\* the rethrow test, had it compared the attempt number with >
rethrowPastLastAttempt(error, attempt, maxAttempts) ==
  ~isRetryable(error) \/ attempt > maxAttempts

\* !isRetryable(error) || attempt === maxAttempts
shouldRethrow(error, attempt, maxAttempts) ==
  ~isRetryable(error) \/ attempt = maxAttempts

\* the delay, had the cap been left out
retryDelayUncapped(baseDelay, attempt) ==
  baseDelay * 2 ^ (attempt - 1)

\* Math.min(baseDelay * 2 ** (attempt - 1), MAX_RETRY_DELAY)
retryDelay(baseDelay, attempt) ==
  MathMin(baseDelay * 2 ^ (attempt - 1), MAX_RETRY_DELAY)

\* the callback, had it been given the number of the attempt to come
onRetryCallNext(given, attempt, error) ==
  IF given THEN <<Event("onRetry", attempt + 1, error, 0)>> ELSE <<>>

\* if (options.onRetry) options.onRetry(attempt, error)
onRetryCall(given, attempt, error) ==
  IF given THEN <<Event("onRetry", attempt, error, 0)>> ELSE <<>>

\* handleWithRetry(operation, operationName, options) up to the first
\* invocation of operation
HandleWithRetry(script, maxAttempts, baseDelay, onRetry) ==
  /\ hr.pc = "idle"
  /\ hr' = [pc |-> "invoking", script |-> script,
            maxAttempts |-> OrElse(maxAttempts, MAX_RETRY_ATTEMPTS),
            baseDelay |-> OrElse(baseDelay, BASE_RETRY_DELAY),
            options |-> [maxAttempts |-> maxAttempts, baseDelay |-> baseDelay,
                         onRetry |-> onRetry],
            attempt |-> 1, lastError |-> NoError, invocations |-> 0, events |-> <<>>,
            status |-> "pending", value |-> "none", error |-> NoError]
  /\ UNCHANGED <<mcpConfiguration, servers, isInitialized, reconnectTimers, sessions,
                 sessionServers, pendingTimers, rc, last, wt, sa, cf, eh, cc, mi, sn>>

\* one pass of the loop body: operation() is invoked and settles; on a failure
\* that is retried the callback is called and the delay is started
RetryAttempt ==
  /\ hr.pc = "invoking"
  /\ LET o == scriptAt(hr.script, hr.invocations + 1)
         invoked == [hr EXCEPT !.invocations = @ + 1,
                               !.events = Append(@, Event("operation", hr.attempt, o.error, 0))]
     IN
     hr' = IF o.ok
           THEN [invoked EXCEPT !.pc = "done", !.status = "ok", !.value = o.value]
           ELSE IF shouldRethrow(o.error, hr.attempt, hr.maxAttempts)
           THEN [invoked EXCEPT !.pc = "done", !.status = "error", !.error = o.error,
                                !.lastError = o.error]
           ELSE [invoked EXCEPT
                   !.pc = "delaying", !.lastError = o.error,
                   !.events = @ \o onRetryCall(hr.options.onRetry, hr.attempt, o.error)
                                \o <<Event("delay", hr.attempt, NoError,
                                           retryDelay(hr.baseDelay, hr.attempt))>>]
  /\ UNCHANGED <<mcpConfiguration, servers, isInitialized, reconnectTimers, sessions,
                 sessionServers, pendingTimers, rc, last, wt, sa, cf, eh, cc, mi, sn>>

\* the delay timer fires: attempt++, and the loop test attempt <= maxAttempts
RetryDelayElapses ==
  /\ hr.pc = "delaying"
  /\ LET elapsed == [hr EXCEPT !.attempt = @ + 1,
                               !.events = Append(@, Event("elapsed", hr.attempt, NoError, 0))]
     IN
     hr' = IF hr.attempt + 1 <= hr.maxAttempts
           THEN [elapsed EXCEPT !.pc = "invoking"]
           ELSE [elapsed EXCEPT !.pc = "done", !.status = "error", !.error = hr.lastError]
  /\ UNCHANGED <<mcpConfiguration, servers, isInitialized, reconnectTimers, sessions,
                 sessionServers, pendingTimers, rc, last, wt, sa, cf, eh, cc, mi, sn>>

\* one call of handleWithRetry (the helper is static and keeps no state
\* between calls)
NextRetry ==
  \/ \E script \in [1..MaxScript -> RetryOutcomes],
        maxAttempts \in {<<>>} \cup {<<n>> : n \in 1..MaxAttempts},
        baseDelay \in {<<>>, <<100>>, <<20000>>}, onRetry \in BOOLEAN :
       HandleWithRetry(script, maxAttempts, baseDelay, onRetry)
  \/ RetryAttempt
  \/ RetryDelayElapses

SpecRetry == Init /\ [][NextRetry]_vars

\* ------------------------------------------- MCPErrorHandler.wrapWithTimeout
\* String(n) for a natural number, as the pieces "0" .. "9"
RECURSIVE numberToString(_)
numberToString(n) ==
  LET digit == <<"0", "1", "2", "3", "4", "5", "6", "7", "8", "9">> IN
  IF n < 10 THEN <<digit[n + 1]>>
  ELSE numberToString(n \div 10) \o <<digit[(n % 10) + 1]>>

\* createTimeoutError, had it left the retryable flag unset
createTimeoutErrorUnflagged(operationName, timeout) ==
  [Error(<<"Operation ", operationName, " timed out after ">> \o numberToString(timeout)
         \o <<"ms">>)
     EXCEPT !.type = "timeout"]

createTimeoutError(operationName, timeout) ==
  [Error(<<"Operation ", operationName, " timed out after ">> \o numberToString(timeout)
         \o <<"ms">>)
     EXCEPT !.type = "timeout", !.retryable = <<TRUE>>]

\* a promise: "pending", or settled ("fulfilled" with value, "rejected" with error)
Pending == [status |-> "pending", value |-> "none", error |-> NoError]
Fulfilled(value) == [status |-> "fulfilled", value |-> value, error |-> NoError]
Rejected(error) == [status |-> "rejected", value |-> "none", error |-> error]

\* what the promise given to wrapWithTimeout settles with
PromiseOutcomes ==
  {Fulfilled(v) : v \in Values} \cup {Rejected(e) : e \in EnvErrors}

\* resolving or rejecting a promise that is already settled does nothing
settle(promise, outcome) ==
  IF promise.status = "pending" THEN outcome ELSE promise

\* wrapWithTimeout(promise, timeout, operationName): Promise.race of the given
\* promise, which may be settled already, and of a promise that a timer of
\* `timeout` ms rejects.  race is the promise returned, order the order in
\* which the given promise and the timer have settled.
WrapWithTimeout(promise, timeout, operationName) ==
  /\ wt.pc = "idle"
  /\ wt' = [pc |-> "racing", operationName |-> operationName, timeout |-> timeout,
            promise |-> promise, timer |-> "pending",
            race |-> settle(Pending, promise),
            order |-> IF promise.status = "pending" THEN <<>> ELSE <<"promise">>]
  /\ UNCHANGED <<mcpConfiguration, servers, isInitialized, reconnectTimers, sessions,
                 sessionServers, pendingTimers, rc, last, hr, sa, cf, eh, cc, mi, sn>>

\* the given promise settles
PromiseSettles(outcome) ==
  /\ wt.pc = "racing"
  /\ wt.promise.status = "pending"
  /\ wt' = [wt EXCEPT !.promise = outcome,
                      !.race = settle(@, outcome),
                      !.order = Append(@, "promise")]
  /\ UNCHANGED <<mcpConfiguration, servers, isInitialized, reconnectTimers, sessions,
                 sessionServers, pendingTimers, rc, last, hr, sa, cf, eh, cc, mi, sn>>

\* the timer firing, had its rejection replaced a result already delivered
TimerExpiresOverrides ==
  /\ wt.pc = "racing"
  /\ wt.timer = "pending"
  /\ wt' = [wt EXCEPT !.timer = "fired",
                      !.race = Rejected(createTimeoutError(wt.operationName, wt.timeout)),
                      !.order = Append(@, "timer")]
  /\ UNCHANGED <<mcpConfiguration, servers, isInitialized, reconnectTimers, sessions,
                 sessionServers, pendingTimers, rc, last, hr, sa, cf, eh, cc, mi, sn>>

\* the timer fires; nothing clears it when the given promise settles first
TimerExpires ==
  /\ wt.pc = "racing"
  /\ wt.timer = "pending"
  /\ wt' = [wt EXCEPT !.timer = "fired",
                      !.race = settle(@, Rejected(createTimeoutError(wt.operationName,
                                                                     wt.timeout))),
                      !.order = Append(@, "timer")]
  /\ UNCHANGED <<mcpConfiguration, servers, isInitialized, reconnectTimers, sessions,
                 sessionServers, pendingTimers, rc, last, hr, sa, cf, eh, cc, mi, sn>>

\* one call of wrapWithTimeout
NextTimeout ==
  \/ \E promise \in PromiseOutcomes \cup {Pending}, timeout \in {100, 1000, 5000, 30000},
        operationName \in {"test-operation", "op"} :
       WrapWithTimeout(promise, timeout, operationName)
  \/ \E outcome \in PromiseOutcomes : PromiseSettles(outcome)
  \/ TimerExpires

SpecTimeout == Init /\ [][NextTimeout]_vars

\* ----------------------------------- AgentManagerImpl: delegates' MCP tools
\* String.prototype.split, on a separator of one character
RECURSIVE split(_, _)
split(s, sep) ==
  IF \A i \in 1..Len(s) : s[i] # sep THEN <<s>>
  ELSE LET i == CHOOSE k \in 1..Len(s) : s[k] = sep /\ \A j \in 1..(k - 1) : s[j] # sep
       IN <<SubSeq(s, 1, i - 1)>> \o split(SubSeq(s, i + 1, Len(s)), sep)

\* the segments of a path once "", "." and ".." are resolved; acc is the
\* path walked so far
RECURSIVE normalize(_, _)
normalize(segments, acc) ==
  IF segments = <<>> THEN acc
  ELSE LET head == Head(segments) IN
       normalize(Tail(segments),
                 IF head = <<>> \/ head = Chars["."] THEN acc
                 ELSE IF head = Chars[".."]
                 THEN (IF acc = <<>> THEN acc ELSE SubSeq(acc, 1, Len(acc) - 1))
                 ELSE Append(acc, head))

\* process.cwd()
cwd == <<"/", "app">>

\* path.resolve(p): the segments of the absolute path
resolve(p) ==
  LET t == text(p)
      absolute == IF startsWith(t, Chars["/"]) THEN t ELSE text(cwd) \o Chars["/"] \o t
  IN normalize(split(absolute, "/"), <<>>)

\* SubAgentConfig.mcpFile values (<<>>: the delegate declares none)
McpFiles ==
  {<<"config", "/", "sub-mcp.json">>,
   <<".", "/", "config", "/", "sub-mcp.json">>,
   <<"config", "/", "..", "/", "config", "/", "sub-mcp.json">>,
   <<"/", "etc", "/", "passwd">>,
   <<"..", "/", "etc", "/", "passwd">>,
   <<"config", "/", "..", "/", "..", "/", "etc", "/", "passwd">>}

\* what fs.access, fs.readFile and JSON.parse make of the file: it is missing,
\* it cannot be read, its content is not JSON, or it parses to a descriptor map
FileErrors ==
  [missing |-> Error(<<"ENOENT">>), unreadable |-> Error(<<"EACCES">>),
   invalid |-> Error(<<"Unexpected token">>)]

FileOutcomes ==
  {[kind |-> k, config |-> <<>>] : k \in DOMAIN FileErrors}
    \cup {[kind |-> "parsed", config |-> c] :
            c \in {c \in ConfigMaps : /\ DOMAIN c \in {{}, {"fs"}, {"fs", "web"}}
                                      /\ "web" \in DOMAIN c => ~c["web"].disabled}}

\* The position of createSubAgents when AgentManagerImpl.initialize() calls it
\* on `total` delegates.  For the delegate in hand: its mcpFile, what the file
\* turned out to be (file), whether readFile was called on it (read), the
\* descriptor map parsed from it, whether a manager was created, the tools to
\* return, the error the catch block caught and the warnings logged.
Starting(total) ==
  [pc |-> "next", total |-> total, mcpFile |-> <<>>, file |-> "none", config |-> <<>>,
   manager |-> FALSE, read |-> FALSE, tools |-> <<>>, caught |-> NoError, warnings |-> <<>>, agents |-> <<>>,
   main |-> FALSE]

\* the catch block of loadSubAgentMcpTools, had it thrown the error again
catchLoadFailureRethrows(call, error) ==
  [call EXCEPT !.pc = "aborted", !.caught = error]

\* the catch block of loadSubAgentMcpTools: a warning, and no tools
catchLoadFailure(call, error) ==
  [call EXCEPT !.pc = "assemble", !.tools = <<>>, !.caught = error,
             !.warnings = Append(@, "Failed to load MCP configuration")]

\* createSubAgents: the number of delegates configured
CreateSubAgents(total) ==
  /\ sa.pc = "idle"
  /\ sa' = Starting(total)
  /\ UNCHANGED <<mcpConfiguration, servers, isInitialized, reconnectTimers, sessions,
                 sessionServers, pendingTimers, rc, last, hr, wt, cf, eh, cc, mi, sn>>

\* the loop takes a delegate that declares no mcpFile: no tools
NextSubAgentWithoutFile ==
  /\ sa.pc = "next"
  /\ Len(sa.agents) < sa.total
  /\ sa' = [sa EXCEPT !.pc = "assemble", !.mcpFile = <<>>, !.file = "none", !.config = <<>>,
                      !.manager = FALSE, !.read = FALSE, !.tools = <<>>,
                      !.caught = NoError, !.warnings = <<>>]
  /\ UNCHANGED <<mcpConfiguration, servers, isInitialized, reconnectTimers, sessions,
                 sessionServers, pendingTimers, rc, last, hr, wt, cf, eh, cc, mi, sn>>

\* the path test of loadSubAgentMcpTools
insideConfig(mcpFile) ==
  \/ startsWith(text(mcpFile), Chars["config/"])
  \/ startsWith(text(mcpFile), Chars["./config/"])

\* The loop takes a delegate that declares mcpFile: loadSubAgentMcpTools up to
\* its call of initializeServers, the file being as f says.
LoadSubAgentMcpTools(mcpFile, f) ==
  /\ sa.pc = "next"
  /\ Len(sa.agents) < sa.total
  /\ UNCHANGED <<sessions, pendingTimers, rc, hr, wt, cf, eh, cc, mi, sn>>
  /\ LET taken == [sa EXCEPT !.pc = "loading", !.mcpFile = mcpFile, !.file = "none",
                             !.config = <<>>,
                             !.manager = FALSE, !.read = FALSE, !.tools = <<>>,
                             !.caught = NoError, !.warnings = <<>>]
     IN
     IF ~insideConfig(mcpFile)
     THEN /\ sa' = [taken EXCEPT !.pc = "assemble",
                                 !.warnings = <<"is outside config/ directory">>]
          /\ UNCHANGED <<mcpConfiguration, servers, isInitialized, reconnectTimers,
                         sessionServers, last>>
     ELSE IF f.kind = "missing"
     THEN /\ sa' = [taken EXCEPT !.pc = "assemble", !.file = f.kind,
                                 !.warnings = <<"MCP configuration file not found">>]
          /\ UNCHANGED <<mcpConfiguration, servers, isInitialized, reconnectTimers,
                         sessionServers, last>>
     ELSE IF f.kind \in {"unreadable", "invalid"}
     THEN /\ sa' = catchLoadFailure([taken EXCEPT !.file = f.kind, !.read = TRUE],
                                     FileErrors[f.kind])
          /\ UNCHANGED <<mcpConfiguration, servers, isInitialized, reconnectTimers,
                         sessionServers, last>>
     ELSE \* new MCPManager()
          /\ sa' = [taken EXCEPT !.file = f.kind, !.read = TRUE, !.config = f.config,
                                 !.manager = TRUE]
          /\ mcpConfiguration' = NoSession
          /\ servers' = {}
          /\ isInitialized' = FALSE
          /\ reconnectTimers' = {}
          /\ sessionServers' = {}
          /\ last' = Outcome("constructor", "ok", NoError, NoError)

\* await subAgentMcpManager.initializeServers(mcpConfig)
SubAgentInitializeServers ==
  /\ sa.pc = "loading"
  /\ last.op = "constructor"
  /\ \E ctor \in CtorOutcomes : InitializeServers(sa.config, ctor)

\* await subAgentMcpManager.getAvailableTools()
SubAgentGetAvailableTools ==
  /\ sa.pc = "loading"
  /\ last.op = "initializeServers"
  /\ last.status = "ok"
  /\ \E d \in Discoveries : GetAvailableTools(d)

\* initializeServers or getAvailableTools has rejected: the catch block
LoadFails ==
  /\ sa.pc = "loading"
  /\ last.op \in {"initializeServers", "getAvailableTools"}
  /\ last.status = "error"
  /\ sa' = catchLoadFailure(sa, last.error)
  /\ UNCHANGED <<mcpConfiguration, servers, isInitialized, reconnectTimers, sessions,
                 sessionServers, pendingTimers, rc, last, hr, wt, cf, eh, cc, mi, sn>>

\* getAvailableTools has resolved: const tools
LoadHoldsTools ==
  /\ sa.pc = "loading"
  /\ last.op = "getAvailableTools"
  /\ last.status = "ok"
  /\ sa' = [sa EXCEPT !.pc = "disconnecting", !.tools = last.tools]
  /\ UNCHANGED <<mcpConfiguration, servers, isInitialized, reconnectTimers, sessions,
                 sessionServers, pendingTimers, rc, last, hr, wt, cf, eh, cc, mi, sn>>

\* await subAgentMcpManager.disconnect()
SubAgentDisconnect ==
  /\ sa.pc = "disconnecting"
  /\ last.op = "getAvailableTools"
  /\ \E r \in ReleaseOutcomes : Disconnect(r)

\* disconnect() has settled: its rejection is a warning; return tools
LoadReturns ==
  /\ sa.pc = "disconnecting"
  /\ last.op = "disconnect"
  /\ sa' = [sa EXCEPT !.pc = "assemble",
                      !.warnings = IF last.status = "error"
                                   THEN Append(@, "Failed to disconnect MCP manager")
                                   ELSE @]
  /\ UNCHANGED <<mcpConfiguration, servers, isInitialized, reconnectTimers, sessions,
                 sessionServers, pendingTimers, rc, last, hr, wt, cf, eh, cc, mi, sn>>

\* new Agent({..., tools}) and this.subAgents.set
AssembleSubAgent ==
  /\ sa.pc = "assemble"
  /\ sa' = [sa EXCEPT !.pc = "next",
                      !.agents = Append(@, [mcpFile |-> sa.mcpFile, tools |-> sa.tools])]
  /\ UNCHANGED <<mcpConfiguration, servers, isInitialized, reconnectTimers, sessions,
                 sessionServers, pendingTimers, rc, last, hr, wt, cf, eh, cc, mi, sn>>

\* createSubAgents has returned: initialize() creates the primary agent
CreateMainAgent ==
  /\ sa.pc = "next"
  /\ Len(sa.agents) = sa.total
  /\ sa' = [sa EXCEPT !.pc = "done", !.main = TRUE]
  /\ UNCHANGED <<mcpConfiguration, servers, isInitialized, reconnectTimers, sessions,
                 sessionServers, pendingTimers, rc, last, hr, wt, cf, eh, cc, mi, sn>>

\* one start-up: the delegates in turn, then the primary agent
NextSubAgents ==
  \/ \E total \in 1..MaxSubAgents : CreateSubAgents(total)
  \/ NextSubAgentWithoutFile
  \/ \E mcpFile \in McpFiles, f \in FileOutcomes : LoadSubAgentMcpTools(mcpFile, f)
  \/ SubAgentInitializeServers
  \/ SubAgentGetAvailableTools
  \/ LoadFails
  \/ LoadHoldsTools
  \/ SubAgentDisconnect
  \/ LoadReturns
  \/ AssembleSubAgent
  \/ CreateMainAgent

SpecSubAgents == Init /\ [][NextSubAgents]_vars

\* ------------------------------------ descriptors: validation and transport
\* A value parsed from JSON: its type tag and, for a string or a number, the
\* pieces of its text; for an array, its elements.
Undefined == [t |-> "undefined", v |-> <<>>]
Str(pieces) == [t |-> "string", v |-> pieces]
Bool(b) == [t |-> "boolean", v |-> <<IF b THEN "true" ELSE "false">>]
Arr(elements) == [t |-> "array", v |-> elements]
Obj == [t |-> "object", v |-> <<>>]

\* ToBoolean
truthy(x) ==
  /\ x.t # "undefined"
  /\ ~(x.t = "string" /\ text(x.v) = <<>>)
  /\ ~(x.t = "number" /\ text(x.v) = Chars["0"])
  /\ x # Bool(FALSE)

\* the typeof operator
typeOf(x) == IF x.t = "array" THEN "object" ELSE x.t

\* Array.isArray
isArray(x) == x.t = "array"

\* MCPServerConfig: a property that is not set is Undefined
Descriptor(type, url, command, args, env, disabled, autoApprove) ==
  [type |-> type, url |-> url, command |-> command, args |-> args, env |-> env,
   disabled |-> disabled, autoApprove |-> autoApprove]

UrlStreamMcp == <<"https://", "example.com", "/", "stream", "/", "mcp">>

DisabledValues == {Undefined, Bool(FALSE), Bool(TRUE)}

\* the descriptor of the filesystem provider of the tests
FsDescriptor ==
  Descriptor(Undefined, Undefined, Str(<<"npx">>), Arr(<<"-y", "./data">>), Undefined,
             Bool(FALSE), Arr(<<"read_file", "write_file">>))

\* the descriptors a configuration file or the argument may hold: every mix of
\* type, url (a string when it is set), command and disabled, and one
\* descriptor for each of the other fields being of the wrong type
Descriptors ==
  {Descriptor(ty, u, c, Undefined, Undefined, d, Undefined) :
     ty \in {Undefined, Str(<<"stdio">>), Str(<<"http">>), Str(<<"streamable-http">>),
             Str(<<"sse">>)},
     u \in {Undefined, Str(<<"https://", "example.com", "/", "mcp">>), Str(UrlStreamMcp),
            Str(<<"http://", "localhost", "/", "mcp">>), Str(<<"example.com", "/", "mcp">>)},
     c \in {Undefined, Str(<<"npx">>), Str(<<>>), [t |-> "number", v |-> <<"42">>],
            Str(UrlStreamMcp)},
     d \in DisabledValues}
    \cup {FsDescriptor,
          [FsDescriptor EXCEPT !.args = Str(<<"not-an-array">>)],
          [FsDescriptor EXCEPT !.env = Str(<<"not-an-object">>)],
          [FsDescriptor EXCEPT !.env = Obj],
          [FsDescriptor EXCEPT !.disabled = Str(<<"not-a-boolean">>)],
          [FsDescriptor EXCEPT !.autoApprove = Str(<<"not-an-array">>)]}

\* Object.entries(mcpServers): the entries in the order of the file
Entry(name, config) == [name |-> name, config |-> config]

EntryLists ==
  {<<>>}
    \cup {<<Entry("web", c)>> : c \in Descriptors}
    \cup {<<Entry("fs", FsDescriptor), Entry("web", c)>> : c \in Descriptors}
    \cup {<<Entry("web", c), Entry("fs", FsDescriptor)>> : c \in Descriptors}

\* MCPConfigLoader.validateServerConfig: the error it throws (NoError: none)
validateServerConfig(serverName, config) ==
  IF /\ (~truthy(config.command) \/ typeOf(config.command) # "string")
     /\ (~truthy(config.type) \/ config.type = Str(<<"stdio">>))
  THEN Error(<<"Invalid MCP server configuration for ", serverName,
               ": command is required and must be a string">>)
  ELSE IF truthy(config.args) /\ ~isArray(config.args)
  THEN Error(<<"Invalid MCP server configuration for ", serverName, ": args must be an array">>)
  ELSE IF truthy(config.env) /\ typeOf(config.env) # "object"
  THEN Error(<<"Invalid MCP server configuration for ", serverName, ": env must be an object">>)
  ELSE IF config.disabled # Undefined /\ typeOf(config.disabled) # "boolean"
  THEN Error(<<"Invalid MCP server configuration for ", serverName,
               ": disabled must be a boolean">>)
  ELSE IF truthy(config.autoApprove) /\ ~isArray(config.autoApprove)
  THEN Error(<<"Invalid MCP server configuration for ", serverName,
               ": autoApprove must be an array">>)
  ELSE NoError

\* A parsed configuration file: whether it has an mcpServers object, and the
\* entries of that object.
ParsedConfig(hasServers, entries) == [mcpServers |-> hasServers, entries |-> entries]

\* MCPConfigLoader.validateConfig: the error of the first entry that is not
\* valid (NoError: none)
validateConfig(config) ==
  IF ~config.mcpServers
  THEN Error(<<"Invalid MCP configuration: mcpServers must be an object">>)
  ELSE LET bad == {i \in 1..Len(config.entries) :
                     validateServerConfig(config.entries[i].name, config.entries[i].config)
                       # NoError}
       IN IF bad = {} THEN NoError
          ELSE LET i == CHOOSE k \in bad : \A j \in bad : k <= j
               IN validateServerConfig(config.entries[i].name, config.entries[i].config)

\* what fs.readFile and JSON.parse make of the configuration file
ConfigFiles ==
  {[kind |-> k, config |-> ParsedConfig(FALSE, <<>>)] : k \in DOMAIN FileErrors}
    \cup {[kind |-> "parsed", config |-> ParsedConfig(FALSE, <<>>)]}
    \cup {[kind |-> "parsed", config |-> ParsedConfig(TRUE, es)] : es \in EntryLists}

\* loadConfig, had it rethrown the error of a missing file like any other
loadConfigMissingThrows(f) ==
  IF f.kind \in {"missing", "unreadable"}
  THEN [thrown |-> FileErrors[f.kind], config |-> ParsedConfig(FALSE, <<>>)]
  ELSE IF f.kind = "invalid"
  THEN [thrown |-> Error(<<"Invalid JSON in MCP configuration file: ">>
                           \o FileErrors[f.kind].message),
        config |-> ParsedConfig(FALSE, <<>>)]
  ELSE [thrown |-> validateConfig(f.config),
        config |-> IF validateConfig(f.config) = NoError THEN f.config
                   ELSE ParsedConfig(FALSE, <<>>)]

\* MCPConfigLoader.loadConfig on file f: the error it throws (NoError: none)
\* and the configuration it returns
loadConfig(f) ==
  IF f.kind = "missing"
  THEN [thrown |-> NoError, config |-> ParsedConfig(TRUE, <<>>)]
  ELSE IF f.kind = "invalid"
  THEN [thrown |-> Error(<<"Invalid JSON in MCP configuration file: ">>
                           \o FileErrors[f.kind].message),
        config |-> ParsedConfig(FALSE, <<>>)]
  ELSE IF f.kind = "unreadable"
  THEN [thrown |-> FileErrors[f.kind], config |-> ParsedConfig(FALSE, <<>>)]
  ELSE [thrown |-> validateConfig(f.config),
        config |-> IF validateConfig(f.config) = NoError THEN f.config
                   ELSE ParsedConfig(FALSE, <<>>)]

\* VoltMCPServerConfig, as passed to the MCPConfiguration constructor
ServerConfig(name, type, url, command, args, env) ==
  [name |-> name, type |-> type, url |-> url, command |-> command, args |-> args,
   env |-> env]

\* config.url?.startsWith(prefix)
urlStartsWith(config, prefix) ==
  config.url # Undefined /\ startsWith(text(config.url.v), Chars[prefix])

\* MCPManager.createServerConfig
createServerConfig(serverName, config) ==
  IF urlStartsWith(config, "http://") \/ urlStartsWith(config, "https://")
  THEN ServerConfig(serverName, config.type, config.url, Undefined, Undefined, Undefined)
  ELSE ServerConfig(serverName, Str(<<"stdio">>), Undefined, config.command, config.args,
                    config.env)

\* the loop of initializeServers: the entries that are not disabled
RECURSIVE enabledEntries(_)
enabledEntries(entries) ==
  IF entries = <<>> THEN <<>>
  ELSE (IF truthy(Head(entries).config.disabled) THEN <<>> ELSE <<Head(entries)>>)
         \o enabledEntries(Tail(entries))

\* the servers object built by the loop of initializeServers, in entry order
buildServers(entries) ==
  [i \in 1..Len(enabledEntries(entries)) |->
     createServerConfig(enabledEntries(entries)[i].name, enabledEntries(entries)[i].config)]

\* the entries as the map from provider name to whether it is disabled
disabledMap(entries) ==
  [n \in {entries[i].name : i \in 1..Len(entries)} |->
     [disabled |-> \E i \in 1..Len(entries) :
                     entries[i].name = n /\ truthy(entries[i].config.disabled)]]

\* cf once initializeServers has settled: the route the configuration came by
\* ("file" or "argument"), what the file turned out to be, the entries
\* initializeServers looped over, what loadConfig threw, the servers object
\* built and whether the MCPConfiguration constructor was called with it
ConfigCall(route, file, entries, thrown, built, constructed) ==
  [pc |-> "done", route |-> route, file |-> file, entries |-> entries, thrown |-> thrown,
   built |-> built, constructed |-> constructed]

\* initializeServers() on a manager whose loader reads file f
InitializeServersFromFile(f, ctor) ==
  /\ cf.pc = "idle"
  /\ UNCHANGED <<hr, wt, sa, eh, cc, mi, sn>>
  /\ LET l == loadConfig(f) IN
     IF l.thrown # NoError
     THEN /\ UNCHANGED <<mcpConfiguration, servers, isInitialized, reconnectTimers, sessions,
                         sessionServers, pendingTimers, rc>>
          /\ last' = Outcome("initializeServers", "error",
                             createMCPError(<<"Failed to initialize MCP servers">>,
                                            "configuration", l.thrown, FALSE),
                             l.thrown)
          /\ cf' = ConfigCall("file", f, <<>>, l.thrown, <<>>, FALSE)
     ELSE /\ initializeServers(disabledMap(l.config.entries), ctor)
          /\ cf' = ConfigCall("file", f, l.config.entries, NoError,
                              buildServers(l.config.entries), l.config.entries # <<>>)

\* initializeServers(config) with the configuration given as the argument
InitializeServersGiven(entries, ctor) ==
  /\ cf.pc = "idle"
  /\ UNCHANGED <<hr, wt, sa, eh, cc, mi, sn>>
  /\ initializeServers(disabledMap(entries), ctor)
  /\ cf' = ConfigCall("argument", [kind |-> "none", config |-> ParsedConfig(TRUE, entries)],
                      entries, NoError, buildServers(entries), entries # <<>>)

\* one initializeServers call on a new manager
NextConfig ==
  \/ \E f \in ConfigFiles, ctor \in CtorOutcomes : InitializeServersFromFile(f, ctor)
  \/ \E entries \in EntryLists, ctor \in CtorOutcomes : InitializeServersGiven(entries, ctor)

SpecConfig == Init /\ [][NextConfig]_vars

\* ----------------------------- MCPErrorHandler: categorizeError, isRetryable
\* the messages of the errors the tests classify, and messages that match the
\* keywords of two kinds or of none
ErrorMessages ==
  {<<"ECONNREFUSED">>, <<"ECONNRESET">>, <<"ETIMEDOUT">>, <<"ENOTFOUND">>, <<"ENETUNREACH">>,
   <<"EHOSTUNREACH">>, <<"EPIPE">>, <<"timeout">>, <<"connection error">>,
   <<"Connection failed">>, <<"Operation timeout">>, <<"Invalid protocol">>,
   <<"Protocol error">>, <<"Invalid configuration">>, <<"Configuration error">>,
   <<"Unknown error">>, <<"Unauthorized">>, <<"Test error">>, <<"Connection timeout">>,
   <<"Request TIMEOUT on connection">>, <<"read ECONNRESET">>, <<"Network unreachable">>,
   <<>>}

\* the errors given to the helpers: MCPError.retryable not set, true or false;
\* the code property not set, or the string a system error carries
ErrorInputs ==
  {[Error(m) EXCEPT !.retryable = r, !.code = c] :
     m \in ErrorMessages, r \in {<<>>, <<TRUE>>, <<FALSE>>},
     c \in {<<>>, <<"ECONNRESET">>, <<"econnreset">>, <<"ENOENT">>}}

\* MCPErrorHandler.categorizeError(error) returns
CategorizeError(error) ==
  /\ eh.pc = "idle"
  /\ eh' = [pc |-> "categorized", error |-> error, kind |-> categorizeError(error)]
  /\ UNCHANGED <<mcpConfiguration, servers, isInitialized, reconnectTimers, sessions,
                 sessionServers, pendingTimers, rc, last, hr, wt, sa, cf, cc, mi, sn>>

\* MCPErrorHandler.isRetryable(error) returns
IsRetryable(error) ==
  /\ eh.pc = "idle"
  /\ eh' = [pc |-> "decided", error |-> error, retryable |-> isRetryable(error)]
  /\ UNCHANGED <<mcpConfiguration, servers, isInitialized, reconnectTimers, sessions,
                 sessionServers, pendingTimers, rc, last, hr, wt, sa, cf, cc, mi, sn>>

\* one error is classified
NextErrors ==
  \/ \E error \in ErrorInputs : CategorizeError(error)
  \/ \E error \in ErrorInputs : IsRetryable(error)

SpecErrors == Init /\ [][NextErrors]_vars

\* ------------------------------------------ concurrent calls on one manager
\* The calls of the callers that run on one manager.  A call runs from one
\* await to the next in one step: it is issued and runs up to the getTools()
\* it awaits ("discovering"), getTools() settles and getAvailableTools()
\* returns to the method that awaited it ("listed"), that method runs up to
\* the handler it awaits ("invoking"), and the handler settles ("settled").
Callers == 1..MaxCallers

\* the names and handler outcomes the concurrent callers use
CallToolNames == {"read_file", "test_tool"}
CallDiscoveries ==
  {d \in Discoveries : ~d.ok \/ Len(d.tools) > 0}
CallHandlerOutcomes ==
  {h \in HandlerOutcomes : h.value \in {"success", "none"} /\ h.error # Error(<<"ECONNREFUSED">>)}

NoHandlerOutcome == [ok |-> FALSE, value |-> "none", error |-> NoError]
NoListing == [status |-> "pending", tools |-> <<>>, error |-> NoError, caught |-> NoError]

\* what a call settles with
NoResult ==
  [status |-> "pending", value |-> "none", error |-> NoError, caught |-> NoError,
   tools |-> <<>>, toolsets |-> <<>>, calls |-> <<>>]

AsResult(r) ==
  [f \in DOMAIN NoResult |-> IF f \in DOMAIN r THEN r[f] ELSE NoResult[f]]

\* A call: the method, its position, its arguments, whether the manager was
\* initialized and the session it held when the call was issued, what
\* getTools() and the handler settled with for this call, what its
\* getAvailableTools() returned, its settlement, and the callers that had a
\* call in flight when it settled.
Unissued ==
  [op |-> "none", pc |-> "unissued", toolName |-> "", params |-> "none", ready |-> FALSE,
   session |-> NoSession, d |-> [ok |-> FALSE, tools |-> <<>>, error |-> NoError],
   h |-> NoHandlerOutcome, listed |-> NoListing, result |-> NoResult, during |-> {}]

calls == IF cc.pc = "idle" THEN [c \in Callers |-> Unissued] ELSE cc.calls

\* call c settles with r
settled(k, c, r) ==
  [k EXCEPT !.pc = "settled", !.result = AsResult(r),
            !.during = {o \in Callers \ {c} :
                          calls[o].pc \in {"discovering", "listed", "invoking"}}]

\* a method is called: it runs up to its first await
issue(c, op, toolName, params) ==
  LET k == [Unissued EXCEPT !.op = op, !.toolName = toolName, !.params = params,
                            !.ready = isInitialized, !.session = mcpConfiguration]
  IN IF ensureInitialized # NoError
     THEN settled(k, c, [status |-> "error", error |-> ensureInitialized])
     ELSE IF mcpConfiguration = NoSession
     THEN (IF op = "executeToolCall"
           THEN [k EXCEPT !.pc = "listed", !.listed = [NoListing EXCEPT !.status = "ok"]]
           ELSE settled(k, c, [status |-> "ok"]))
     ELSE [k EXCEPT !.pc = "discovering"]

Issue(c, op, toolName, params) ==
  /\ calls[c].pc = "unissued"
  /\ cc' = [pc |-> "calls", calls |-> [calls EXCEPT ![c] = issue(c, op, toolName, params)]]
  /\ UNCHANGED <<mcpConfiguration, servers, isInitialized, reconnectTimers, sessions,
                 sessionServers, pendingTimers, rc, last, hr, wt, sa, cf, eh, mi, sn>>

\* getAvailableTools() of call c, had the manager kept the list of the call
\* that was listed before
listingShared(c, d) ==
  IF \E o \in Callers \ {c} : calls[o].listed.status = "ok"
  THEN calls[CHOOSE o \in Callers \ {c} : calls[o].listed.status = "ok"].listed
  ELSE IF d.ok
  THEN [status |-> "ok", tools |-> sanitizeTools(d.tools), error |-> NoError,
        caught |-> NoError]
  ELSE [status |-> "error", tools |-> <<>>,
        error |-> createMCPError(<<"Failed to get available tools">>, "protocol", d.error, FALSE),
        caught |-> d.error]

\* what getAvailableTools() of call c returns once its getTools() has settled
\* with d
listing(c, d) ==
  IF d.ok
  THEN [status |-> "ok", tools |-> sanitizeTools(d.tools), error |-> NoError,
        caught |-> NoError]
  ELSE [status |-> "error", tools |-> <<>>,
        error |-> createMCPError(<<"Failed to get available tools">>, "protocol", d.error, FALSE),
        caught |-> d.error]

\* the getTools() of call c settles with d
DiscoverySettles(c, d) ==
  /\ calls[c].pc = "discovering"
  /\ sessions' = GetTools(sessions, calls[c].session, d)
  /\ LET k == [calls[c] EXCEPT !.d = d, !.listed = listing(c, d)] IN
     cc' = [cc EXCEPT !.calls[c] =
              IF k.op = "getAvailableTools" THEN settled(k, c, k.listed)
              ELSE [k EXCEPT !.pc = "listed"]]
  /\ UNCHANGED <<mcpConfiguration, servers, isInitialized, reconnectTimers,
                 sessionServers, pendingTimers, rc, last, hr, wt, sa, cf, eh, mi, sn>>

\* the method that awaited getAvailableTools() goes on: getToolsets groups and
\* returns, executeToolCall resolves the tool and calls its handler
resume(k, c) ==
  IF k.op = "getToolsets"
  THEN (IF k.listed.status = "ok"
        THEN settled(k, c, [status |-> "ok", tools |-> k.listed.tools,
                            toolsets |-> groupByServer(k.listed.tools, <<>>)])
        ELSE settled(k, c, [status |-> "error",
                            error |-> createMCPError(<<"Failed to get toolsets">>, "protocol",
                                                     k.listed.error, FALSE),
                            caught |-> k.listed.error]))
  ELSE IF k.listed.status = "error"
  THEN settled(k, c, [status |-> "error",
                      error |-> createMCPError(<<"Failed to execute tool call ", k.toolName>>,
                                               "protocol", k.listed.error, FALSE),
                      caught |-> k.listed.error, tools |-> k.listed.tools])
  ELSE LET body == resolveAndInvoke(k.listed.tools, k.toolName, k.params, NoHandlerOutcome) IN
       IF body.calls = <<>>
       THEN settled(k, c, [status |-> "error",
                           error |-> createMCPError(<<"Failed to execute tool call ",
                                                      k.toolName>>,
                                                    "protocol", body.thrown, FALSE),
                           caught |-> body.thrown, tools |-> k.listed.tools])
       ELSE [k EXCEPT !.pc = "invoking"]

Resume(c) ==
  /\ calls[c].pc = "listed"
  /\ cc' = [cc EXCEPT !.calls[c] = resume(calls[c], c)]
  /\ UNCHANGED <<mcpConfiguration, servers, isInitialized, reconnectTimers, sessions,
                 sessionServers, pendingTimers, rc, last, hr, wt, sa, cf, eh, mi, sn>>

\* the handler that executeToolCall of call c awaits settles with h
HandlerSettles(c, h) ==
  /\ calls[c].pc = "invoking"
  /\ LET k == [calls[c] EXCEPT !.h = h]
         body == resolveAndInvoke(k.listed.tools, k.toolName, k.params, h)
     IN cc' = [cc EXCEPT !.calls[c] =
                 IF body.thrown = NoError
                 THEN settled(k, c, [status |-> "ok", value |-> body.value,
                                     calls |-> body.calls, tools |-> k.listed.tools])
                 ELSE settled(k, c, [status |-> "error",
                                     error |-> createMCPError(<<"Failed to execute tool call ",
                                                                k.toolName>>,
                                                              "protocol", body.thrown, FALSE),
                                     caught |-> body.thrown, calls |-> body.calls,
                                     tools |-> k.listed.tools])]
  /\ UNCHANGED <<mcpConfiguration, servers, isInitialized, reconnectTimers, sessions,
                 sessionServers, pendingTimers, rc, last, hr, wt, sa, cf, eh, mi, sn>>

\* the owner of the manager initializes it, once
InitializeShared(config) ==
  /\ last.op = "constructor"
  /\ InitializeServers(config, NoError)

\* one manager, initialized, and the calls of the callers in any interleaving
NextConcurrent ==
  \/ \E config \in {c \in ConfigMaps : DOMAIN c = {"fs"} /\ ~c["fs"].disabled} :
       InitializeShared(config)
  \/ \E c \in Callers : Issue(c, "getAvailableTools", "", "none")
  \/ \E c \in Callers : Issue(c, "getToolsets", "", "none")
  \/ \E c \in Callers, toolName \in CallToolNames : Issue(c, "executeToolCall", toolName, "p1")
  \/ \E c \in Callers, d \in CallDiscoveries : DiscoverySettles(c, d)
  \/ \E c \in Callers : Resume(c)
  \/ \E c \in Callers, h \in CallHandlerOutcomes : HandlerSettles(c, h)

SpecConcurrent == Init /\ [][NextConcurrent]_vars

\* ------------------------------------------- several MCPManager instances
\* The objects of one process: the MCPManager instances (manager 1 is the
\* primary one, held by AgentManagerImpl; the others are the managers that
\* loadSubAgentMcpTools creates), the Map objects and the MCPConfiguration
\* objects.  A field that holds an object holds its reference, the index of
\* the object in maps or in configurations; 0 is undefined.
Managers == 1..MaxManagers

\* an instance that has not been constructed; called records that its owner
\* has called initializeServers on it
NoManager ==
  [born |-> FALSE, called |-> FALSE, servers |-> 0, reconnectTimers |-> 0,
   mcpConfiguration |-> 0, isInitialized |-> FALSE, rc |-> Idle]

\* the objects of the process; none before the first construction
heap ==
  IF mi.pc = "idle"
  THEN [pc |-> "heap", managers |-> [i \in Managers |-> NoManager], maps |-> <<>>,
        configurations |-> <<>>, actor |-> 0]
  ELSE mi

\* the objects as an operation called on instance i finds them; actor is the
\* instance of the call in hand
heapOn(i) == [heap EXCEPT !.actor = i]

\* new MCPManager(), had servers and reconnectTimers been static fields
newMCPManagerStatic(h, i) ==
  IF \E o \in Managers : h.managers[o].born
  THEN LET o == CHOOSE o \in Managers : h.managers[o].born IN
       [h EXCEPT !.managers[i] = [NoManager EXCEPT !.born = TRUE,
                                                   !.servers = h.managers[o].servers,
                                                   !.reconnectTimers =
                                                     h.managers[o].reconnectTimers]]
  ELSE [h EXCEPT !.maps = h.maps \o <<{}, {}>>,
                 !.managers[i] = [NoManager EXCEPT !.born = TRUE,
                                                   !.servers = Len(h.maps) + 1,
                                                   !.reconnectTimers = Len(h.maps) + 2]]

\* new MCPManager(): the field initializers give the instance two new Maps
newMCPManager(h, i) ==
  [h EXCEPT !.maps = h.maps \o <<{}, {}>>,
            !.managers[i] = [NoManager EXCEPT !.born = TRUE,
                                              !.servers = Len(h.maps) + 1,
                                              !.reconnectTimers = Len(h.maps) + 2]]

NewMCPManager(i) ==
  /\ ~heap.managers[i].born
  /\ \A o \in 1..(i - 1) : heap.managers[o].born
  /\ mi' = newMCPManager(heapOn(i), i)
  /\ UNCHANGED <<mcpConfiguration, servers, isInitialized, reconnectTimers, sessions,
                 sessionServers, pendingTimers, rc, last, hr, wt, sa, cf, eh, cc, sn>>

\* initializeServers(config) on instance i; the owner of a manager calls it
\* once, after the construction
InstanceInitializeServers(i, config, ctor) ==
  /\ heap.managers[i].born
  /\ ~heap.managers[i].called
  /\ mi' = LET m == heap.managers[i]
               h == [heapOn(i) EXCEPT !.managers[i].called = TRUE]
               filled == [h EXCEPT !.maps[m.servers] = @ \cup enabledNames(config)]
           IN IF DOMAIN config = {} THEN h
              ELSE IF ctor # NoError THEN filled
              ELSE [filled EXCEPT !.configurations =
                                    Append(@, [state |-> "constructed",
                                               servers |-> enabledNames(config)]),
                                  !.managers[i].mcpConfiguration =
                                    Len(heapOn(i).configurations) + 1,
                                  !.managers[i].isInitialized = TRUE]
  /\ UNCHANGED <<mcpConfiguration, servers, isInitialized, reconnectTimers, sessions,
                 sessionServers, pendingTimers, rc, last, hr, wt, sa, cf, eh, cc, sn>>

\* getTools() on the MCPConfiguration object with reference s
instanceGetTools(h, s, d) ==
  IF d.ok THEN [h EXCEPT !.configurations[s].state = "connected"] ELSE h

\* getAvailableTools() on instance i
InstanceGetAvailableTools(i, d) ==
  /\ heap.managers[i].born
  /\ mi' = LET m == heapOn(i).managers[i] IN
           IF m.isInitialized /\ m.mcpConfiguration # 0
           THEN instanceGetTools(heapOn(i), m.mcpConfiguration, d)
           ELSE heapOn(i)
  /\ UNCHANGED <<mcpConfiguration, servers, isInitialized, reconnectTimers, sessions,
                 sessionServers, pendingTimers, rc, last, hr, wt, sa, cf, eh, cc, sn>>

\* disconnect() on instance i, its MCPConfiguration.disconnect() rejecting
\* with r (NoError: resolving)
InstanceDisconnect(i, r) ==
  /\ heap.managers[i].born
  /\ heap.managers[i].mcpConfiguration = 0 => r = NoError
  /\ mi' = LET m == heapOn(i).managers[i]
               cleared == [heapOn(i) EXCEPT !.maps[m.reconnectTimers] = {}]
           IN IF r # NoError THEN cleared
              ELSE [cleared EXCEPT !.configurations =
                                     IF m.mcpConfiguration = 0 THEN @
                                     ELSE [@ EXCEPT ![m.mcpConfiguration].state = "released"],
                                   !.managers[i].mcpConfiguration = 0,
                                   !.maps[m.servers] = {},
                                   !.managers[i].isInitialized = FALSE]
  /\ UNCHANGED <<mcpConfiguration, servers, isInitialized, reconnectTimers, sessions,
                 sessionServers, pendingTimers, rc, last, hr, wt, sa, cf, eh, cc, sn>>

\* one pass of the loop of connectWithRetry on instance i
instanceConnectWithRetry(h, i, attempt, d) ==
  LET m == h.managers[i]
      ok == m.mcpConfiguration # 0 /\ d.ok
      tried == IF m.mcpConfiguration = 0 THEN h
               ELSE instanceGetTools(h, m.mcpConfiguration, d)
  IN [tried EXCEPT !.managers[i].rc =
        IF ~ok /\ attempt < reconnectAttempts
        THEN [pc |-> "waiting", attempt |-> attempt, delay |-> reconnectDelay]
        ELSE Idle]

\* reconnect() on instance i up to its first wait
InstanceReconnect(i, r, d) ==
  /\ heap.managers[i].born
  /\ heap.managers[i].rc.pc = "idle"
  /\ LET m == heap.managers[i] IN
     IF m.isInitialized /\ m.mcpConfiguration # 0
     THEN mi' = IF r = NoError
                THEN instanceConnectWithRetry(
                       [heapOn(i) EXCEPT !.configurations[m.mcpConfiguration].state = "released"],
                       i, 1, d)
                ELSE heapOn(i)
     ELSE /\ r = NoError
          /\ mi' = instanceConnectWithRetry(heapOn(i), i, 1, d)
  /\ UNCHANGED <<mcpConfiguration, servers, isInitialized, reconnectTimers, sessions,
                 sessionServers, pendingTimers, rc, last, hr, wt, sa, cf, eh, cc, sn>>

\* the backoff timer of the reconnect() waiting on instance i fires
InstanceReconnectTimerFires(i, d) ==
  /\ heap.managers[i].rc.pc = "waiting"
  /\ mi' = instanceConnectWithRetry(heapOn(i), i, heapOn(i).managers[i].rc.attempt + 1, d)
  /\ UNCHANGED <<mcpConfiguration, servers, isInitialized, reconnectTimers, sessions,
                 sessionServers, pendingTimers, rc, last, hr, wt, sa, cf, eh, cc, sn>>

\* isConnected(serverName) on instance i
instanceIsConnected(h, i, serverName) ==
  LET m == h.managers[i] IN
  IF ~m.isInitialized \/ m.mcpConfiguration = 0 THEN FALSE
  ELSE IF serverName # "" THEN serverName \in h.maps[m.servers]
  ELSE TRUE

\* what getTools() settles with, as far as the objects are concerned
InstanceDiscoveries == {d \in Discoveries : Len(d.tools) = 0}

\* the instances of one process, their calls in any order
NextInstances ==
  \/ \E i \in Managers : NewMCPManager(i)
  \/ \E i \in Managers, config \in {c \in ConfigMaps : c = <<>> \/ enabledNames(c) = {"fs"}},
        ctor \in CtorOutcomes :
       InstanceInitializeServers(i, config, ctor)
  \/ \E i \in Managers, d \in InstanceDiscoveries : InstanceGetAvailableTools(i, d)
  \/ \E i \in Managers, r \in ReleaseOutcomes : InstanceDisconnect(i, r)
  \/ \E i \in Managers, r \in ReleaseOutcomes, d \in InstanceDiscoveries :
       InstanceReconnect(i, r, d)
  \/ \E i \in Managers, d \in InstanceDiscoveries : InstanceReconnectTimerFires(i, d)

SpecInstances == Init /\ [][NextInstances]_vars

\* --------------------------------------------- the sanitizer on tool objects
\* Tool objects live in memory: sn.objects is the sequence of the objects
\* allocated so far and a reference is an index into it.  The objects the
\* provider library handed over are there from the start.
\* sanitizeToolSchema, had it deleted inputSchema from the object it was given
sanitizeToolSchemaInPlace(objects, tool) ==
  [objects |-> [objects EXCEPT ![tool] = sanitizeToolSchema(@)], sanitized |-> tool]

\* sanitizeToolSchema on the object at reference tool: { ...tool } allocates a
\* new object with the same properties, delete removes inputSchema from it;
\* the memory afterwards and the reference returned
sanitizeToolSchemaAt(objects, tool) ==
  [objects |-> Append(objects, sanitizeToolSchema(objects[tool])),
   sanitized |-> Len(objects) + 1]

\* the loop of sanitizeTools over the references tools; sanitized is the
\* array pushed so far
RECURSIVE sanitizeToolsAt(_, _, _)
sanitizeToolsAt(objects, tools, sanitized) ==
  IF tools = <<>> THEN [objects |-> objects, sanitized |-> sanitized]
  ELSE LET one == sanitizeToolSchemaAt(objects, Head(tools)) IN
       sanitizeToolsAt(one.objects, Tail(tools), Append(sanitized, one.sanitized))

\* a call of sanitizeToolSchema(tool)
SanitizeToolSchema(tool) ==
  /\ Len(sn.objects) < MaxObjects
  /\ UNCHANGED <<mcpConfiguration, servers, isInitialized, reconnectTimers, sessions,
                 sessionServers, pendingTimers, rc, last, hr, wt, sa, cf, eh, cc, mi>>
  /\ LET one == sanitizeToolSchemaAt(sn.objects, tool) IN
       sn' = [pc |-> "done", op |-> "sanitizeToolSchema", before |-> sn.objects,
              given |-> <<tool>>, objects |-> one.objects, returned |-> <<one.sanitized>>]

\* a call of sanitizeTools(tools)
SanitizeTools(tools) ==
  /\ Len(sn.objects) + Len(tools) <= MaxObjects
  /\ UNCHANGED <<mcpConfiguration, servers, isInitialized, reconnectTimers, sessions,
                 sessionServers, pendingTimers, rc, last, hr, wt, sa, cf, eh, cc, mi>>
  /\ LET all == sanitizeToolsAt(sn.objects, tools, <<>>) IN
       sn' = [pc |-> "done", op |-> "sanitizeTools", before |-> sn.objects,
              given |-> tools, objects |-> all.objects, returned |-> all.sanitized]

\* sanitizer calls on the objects in memory, copies of earlier calls included;
\* an array may hold the same object more than once
NextSanitizer ==
  \/ \E tool \in 1..Len(sn.objects) : SanitizeToolSchema(tool)
  \/ \E n \in 0..(MaxObjects - Len(sn.objects)) :
       \E tools \in [1..n -> 1..Len(sn.objects)] : SanitizeTools(tools)

SpecSanitizer == Init /\ [][NextSanitizer]_vars

\* ------------------------------------------------------------------ claims
AllDisabledMaps == {c \in ConfigMaps : \A n \in DOMAIN c : c[n].disabled}

\* the positions of the tools called name in a tool list
Matches(tools, name) == {i \in 1..Len(tools) : tools[i].name = name}

Min(S) == CHOOSE i \in S : \A j \in S : i <= j
Max(S) == CHOOSE i \in S : \A j \in S : i >= j

\* the call that settled last is an executeToolCall made on an Initialized manager
ExecutedInitialized == last.op = "executeToolCall" /\ isInitialized

\* C1: initializeServers called with a descriptor map whose entries are all
\* disabled, on a manager that holds no session, completes without raising,
\* constructs no session object, and isConnected() is false afterwards.
C1_AllDisabledConstructsNothing ==
  [][\A config \in AllDisabledMaps :
       (mcpConfiguration = NoSession /\ InitializeServers(config, NoError))
         => /\ last'.status = "ok"
            /\ sessions' = sessions
            /\ mcpConfiguration' = NoSession
            /\ ~isConnected("")']_vars

\* C2: at most one session is active per manager: every session object other
\* than the one the manager holds has been released.
C2_ReplacedSessionIsReleased ==
  \A s \in Constructed : s # mcpConfiguration => ~Live(s)

\* C3: a disconnect() that completes while a reconnect waits in its backoff
\* delay cancels that wait: no reconnect timer remains pending afterwards, so
\* the reconnect makes no further attempt.
C3_DisconnectCancelsBackoff ==
  [][(rc.pc = "waiting" /\ Disconnect(NoError)) => pendingTimers' = {}]_vars

\* C4: the release of a constructed session is performed at most once, whatever
\* the sequence of initializeServers, reconnect and disconnect calls.
C4_ReleasedAtMostOnce ==
  \A s \in SessionIds : sessions[s].releases <= 1

\* C5: when no call is in progress, isConnected() is true exactly when the
\* manager is Initialized and the session it holds is live.
C5_ConnectedIffLiveSession ==
  rc.pc = "idle" =>
    (isConnected("") <=>
       (isInitialized /\ mcpConfiguration # NoSession /\ Live(mcpConfiguration)))

\* C6: isConnected(name) is true exactly when the manager is Initialized and
\* name is one of the providers the current session was constructed with.
C6_ConnectedNameIffConstructed ==
  \A name \in Names \cup {"unknown"} :
    isConnected(name) <=>
      (isInitialized /\ mcpConfiguration # NoSession /\ name \in sessionServers)

\* C7: an initializeServers whose session construction fails rejects with an
\* error of type configuration whose message begins with 'Failed to initialize
\* MCP servers', does not make the manager Initialized, and leaves none of the
\* providers it named in the bookkeeping.
C7_FailedConstructionIsAllOrNothing ==
  [][\A config \in ConfigMaps, ctor \in CtorOutcomes \ {NoError} :
       (DOMAIN config # {} /\ InitializeServers(config, ctor))
         => /\ last'.status = "error"
            /\ last'.error.type = "configuration"
            /\ startsWith(text(last'.error.message), Chars["Failed to initialize MCP servers"])
            /\ isInitialized' = isInitialized
            /\ (enabledNames(config) \ servers) \cap servers' = {}]_vars

C9_FailuresAreClassified ==
  (ExecutedInitialized /\ last.status = "error")
    => /\ includes(text(last.error.message), Chars[last.toolName])
       /\ last.error.type = categorizeError(last.caught)
       /\ last.error.retryable = <<isRetryable(last.caught)>>

C11_EmptyDiscoveryIsNoOp ==
  [][\A d \in Discoveries :
       (/\ last.op = "initializeServers"
        /\ last.status = "ok"
        /\ mcpConfiguration = NoSession
        /\ GetAvailableTools(d))
         => /\ last'.status = "ok"
            /\ last'.tools = <<>>]_vars

\* the value of an option of handleWithRetry: the one given, else the default
GivenOr(x, d) == IF x = <<>> THEN x \o <<d>> ELSE x

\* the operation's i-th invocation fails with a retryable error
FailsRetryable(i) ==
  ~scriptAt(hr.script, i).ok /\ isRetryable(scriptAt(hr.script, i).error)

\* the operation's i-th invocation fails with a non-retryable error
FailsFatal(i) ==
  ~scriptAt(hr.script, i).ok /\ ~isRetryable(scriptAt(hr.script, i).error)

\* the positions of the events of one kind in the record of the call
EventsOf(ev) == {i \in 1..Len(hr.events) : hr.events[i].ev = ev}

\* C12: with maxAttempts = N and k < N, an operation that fails its first k
\* invocations with retryable errors and then succeeds makes handleWithRetry
\* return that value after exactly k+1 invocations; an invocation that fails
\* with a non-retryable error is the last one, and that error is raised.
C12_RetriesUntilSuccess ==
  hr.pc = "done" =>
    /\ \A k \in 0..(GivenOr(hr.options.maxAttempts, 3)[1] - 1) :
         ((\A i \in 1..k : FailsRetryable(i)) /\ scriptAt(hr.script, k + 1).ok)
           => /\ hr.status = "ok"
              /\ hr.value = scriptAt(hr.script, k + 1).value
              /\ hr.invocations = k + 1
    /\ \A i \in 1..hr.invocations :
         FailsFatal(i)
           => /\ hr.invocations = i
              /\ hr.status = "error"
              /\ hr.error = scriptAt(hr.script, i).error

C12_Witness ==
  /\ hr.pc = "done"
  /\ hr.options.maxAttempts = <<3>>
  /\ FailsRetryable(1) /\ FailsRetryable(2)
  /\ hr.status = "ok"
  /\ hr.value = "success"
  /\ hr.invocations = 3

\* C13: handleWithRetry invokes the operation at most maxAttempts times
\* (3 when the option is not given); when all of them fail with retryable
\* errors it raises the last failure itself, and nothing (no callback, no wait)
\* follows the last invocation.
C13_AtMostMaxAttempts ==
  hr.pc # "idle" =>
    LET N == GivenOr(hr.options.maxAttempts, 3)[1] IN
    /\ hr.invocations <= N
    /\ (hr.pc = "done" /\ \A i \in 1..N : FailsRetryable(i))
         => /\ hr.invocations = N
            /\ hr.status = "error"
            /\ hr.error = scriptAt(hr.script, N).error
            /\ hr.events[Len(hr.events)] = Event("operation", N, hr.error, 0)

C13_Witness ==
  /\ hr.pc = "done"
  /\ hr.options.maxAttempts = <<>>
  /\ \A i \in 1..3 : FailsRetryable(i)
  /\ hr.invocations = 3
  /\ hr.status = "error"

\* C14 as claimed: the retry callback for attempt k is invoked after the
\* backoff wait for attempt k has elapsed.
C14_CallbackAfterWait ==
  hr.pc # "idle" =>
    \A i \in EventsOf("onRetry") :
      \E j \in 1..(i - 1) :
        hr.events[j].ev = "elapsed" /\ hr.events[j].attempt = hr.events[i].attempt

\* C14 amended: after a retryable failure of attempt k that is not the last
\* attempt, the callback, when given, is invoked once with (k, that error),
\* then the wait for attempt k is started and elapses, then the operation is
\* invoked again; the callbacks are numbered 1, 2, ... in order, one per retry.
C14_CallbackBeforeWait ==
  hr.pc # "idle" =>
    LET N == GivenOr(hr.options.maxAttempts, 3)[1]
        cb == IF hr.options.onRetry THEN 1 ELSE 0
        e == hr.events
    IN
    /\ \A i \in EventsOf("operation") :
         (FailsRetryable(e[i].attempt) /\ e[i].attempt < N)
           => /\ Len(e) >= i + cb + 1
              /\ hr.options.onRetry => e[i + 1] = Event("onRetry", e[i].attempt, e[i].error, 0)
              /\ e[i + cb + 1].ev = "delay" /\ e[i + cb + 1].attempt = e[i].attempt
              /\ Len(e) >= i + cb + 2 => e[i + cb + 2] = Event("elapsed", e[i].attempt, NoError, 0)
              /\ Len(e) >= i + cb + 3 =>
                   (e[i + cb + 3].ev = "operation" /\ e[i + cb + 3].attempt = e[i].attempt + 1)
    /\ Cardinality(EventsOf("onRetry")) = cb * Cardinality(EventsOf("delay"))
    /\ \A i \in EventsOf("onRetry") :
         e[i].attempt = Cardinality({j \in EventsOf("onRetry") : j <= i})

C14_Witness ==
  /\ hr.pc = "done"
  /\ hr.options.onRetry
  /\ Cardinality(EventsOf("onRetry")) = 2
  /\ Cardinality(EventsOf("elapsed")) = 2
  /\ hr.status = "ok"

\* C15: the wait started after failed attempt k is
\* min(baseDelay * 2^(k-1), 30000) ms, baseDelay being 1000 when the option is
\* not given; the waits of one call never decrease and never exceed 30000 ms.
C15_BackoffIsCappedExponential ==
  hr.pc # "idle" =>
    LET base == GivenOr(hr.options.baseDelay, 1000)[1]
        e == hr.events
    IN
    \A i \in EventsOf("delay") :
      /\ e[i].ms = (IF base * 2 ^ (e[i].attempt - 1) < 30000
                    THEN base * 2 ^ (e[i].attempt - 1) ELSE 30000)
      /\ e[i].ms <= 30000
      /\ \A j \in EventsOf("delay") : j < i => e[j].ms <= e[i].ms

C15_Witness ==
  /\ hr.pc # "idle"
  /\ hr.options.baseDelay = <<20000>>
  /\ \E i, j \in EventsOf("delay") :
       i < j /\ hr.events[i].ms = 20000 /\ hr.events[j].ms = 30000

\* C16: the promise wrapWithTimeout returns settles with the outcome of
\* whichever settles first and keeps it: the given promise's own outcome if
\* that one is first, whatever the timer does later; if the timer is first, a
\* rejection with an error of type timeout, retryable, whose message names
\* the operation and the bound, whatever the given promise, which goes on,
\* settles with later.
C16_FirstSettlementWins ==
  wt.pc # "idle" =>
    /\ wt.order = <<>> => wt.race = Pending
    /\ (wt.order # <<>> /\ wt.order[1] = "promise") =>
         /\ wt.promise.status # "pending"
         /\ wt.race = wt.promise
    /\ (wt.order # <<>> /\ wt.order[1] = "timer") =>
         /\ wt.race.status = "rejected"
         /\ wt.race.error.type = "timeout"
         /\ wt.race.error.retryable = <<TRUE>>
         /\ isRetryable(wt.race.error)
         /\ includes(text(wt.race.error.message), Chars[wt.operationName])
         /\ includes(text(wt.race.error.message),
                     text(numberToString(wt.timeout)) \o Chars["ms"])

C16_Witness ==
  /\ wt.pc # "idle"
  /\ wt.order = <<"timer", "promise">>
  /\ wt.promise = Fulfilled("success")
  /\ wt.timeout = 100
  /\ wt.race.status = "rejected"

\* C17: a reconnect() makes at most 3 discovery attempts, 5000 ms apart, and
\* stops at the first one that succeeds; when the last one fails it rejects
\* with an error of type connection with retryable = true.
C17_ReconnectIsBounded ==
  [][\A d \in Discoveries :
       (rc.pc = "waiting" /\ ReconnectTimerFires(d))
         => LET failed == mcpConfiguration = NoSession \/ ~d.ok IN
            /\ rc.delay = 5000
            /\ rc.attempt + 1 <= 3
            /\ ~failed => (rc' = Idle /\ last'.status = "ok")
            /\ (failed /\ rc.attempt + 1 < 3) => rc'.pc = "waiting"
            /\ (failed /\ rc.attempt + 1 = 3)
                 => /\ rc' = Idle
                    /\ last'.status = "error"
                    /\ last'.error.type = "connection"
                    /\ last'.error.retryable = <<TRUE>>]_vars

C17_Witness ==
  /\ last.op = "reconnect"
  /\ last.status = "error"
  /\ last.caught.message = <<"Failed to connect after multiple attempts">>
  /\ last.caught.stack = <<"ECONNREFUSED">>
  /\ rc = Idle

\* one path lies under another
IsUnder(p, root) == Len(p) > Len(root) /\ SubSeq(p, 1, Len(root)) = root

\* loading the tools of the delegate in hand has met a failure: of the file,
\* of initializeServers or of getAvailableTools
LoadFailed ==
  \/ sa.file \in {"missing", "unreadable", "invalid"}
  \/ /\ sa.manager
     /\ \/ last.op = "initializeServers" /\ last.status = "error"
        \/ last.op = "getAvailableTools" /\ last.status = "error"

\* C18: when a delegate that declares a descriptor file is assembled, the
\* manager created for it holds no live session, unless disconnect was called
\* on it and rejected: wherever its initializeServers constructed a session,
\* disconnect has been called before the delegate is assembled.
C18_DisconnectedBeforeAssembly ==
  (sa.pc = "assemble" /\ sa.manager /\ mcpConfiguration # NoSession)
    => (~Live(mcpConfiguration) \/ last.op = "disconnect")

\* C19: a failure while loading a delegate's tools (file missing, unreadable
\* or not JSON, initializeServers or discovery failing) gives that delegate no
\* tools and a warning, and is never raised: every delegate is assembled and
\* the primary agent is created.
C19_LoadFailuresDegrade ==
  /\ sa.pc # "aborted"
  /\ (sa.pc = "assemble" /\ LoadFailed) => (sa.tools = <<>> /\ sa.warnings # <<>>)
  /\ sa.pc = "done" => (Len(sa.agents) = sa.total /\ sa.main)

C19_Witness ==
  /\ sa.pc = "assemble"
  /\ Len(sa.agents) = 1
  /\ sa.agents[1].tools = <<>>
  /\ sa.manager
  /\ last.op = "getAvailableTools"
  /\ last.status = "error"
  /\ sa.warnings = <<"Failed to load MCP configuration">>

\* C20: the descriptor file of a delegate is read only if its path resolves
\* to a location under the configuration root; a path that resolves outside is
\* skipped with a warning and no tools, the file not being read.
C20_OnlyFilesUnderConfigAreRead ==
  (sa.pc \notin {"idle", "next", "done"} /\ sa.mcpFile # <<>>)
    => LET under == IsUnder(resolve(sa.mcpFile), resolve(<<"config">>)) IN
       /\ sa.read => under
       /\ (~under /\ sa.pc = "assemble") => (sa.tools = <<>> /\ sa.warnings # <<>>)
\* whether the path of the URL with text t has a segment containing "stream"
HasStreamSegment(t) ==
  LET segments == split(t, "/") IN
  \E i \in 4..Len(segments) : includes(segments[i], Chars["stream"])

\* the connection parameters the transport resolution rule gives a descriptor
TransportRule(serverName, config) ==
  IF urlStartsWith(config, "http://") \/ urlStartsWith(config, "https://")
  THEN ServerConfig(serverName,
                    IF HasStreamSegment(text(config.url.v)) THEN Str(<<"streamable-http">>)
                    ELSE Str(<<"http">>),
                    config.url, Undefined, Undefined, Undefined)
  ELSE ServerConfig(serverName, Str(<<"stdio">>), Undefined, config.command, config.args,
                    config.env)

\* C21: the connection parameters initializeServers builds for each enabled
\* descriptor are those of the transport resolution rule: {type, url} with
\* type streamable-http when the path of an http(s) URL has a 'stream'
\* segment and http otherwise, {type: 'stdio', command, args, env} for every
\* other descriptor.
C21_BuiltByTransportRule ==
  cf.pc = "done" /\ cf.constructed =>
    /\ Len(cf.built) = Len(enabledEntries(cf.entries))
    /\ \A i \in 1..Len(cf.built) :
         cf.built[i] = TransportRule(enabledEntries(cf.entries)[i].name,
                                     enabledEntries(cf.entries)[i].config)

\* the descriptor has a network URL: a url beginning with http:// or https://
HasNetworkUrl(config) ==
  urlStartsWith(config, "http://") \/ urlStartsWith(config, "https://")

\* the value is a process command: a non-empty string
IsCommand(command) == command.t = "string" /\ text(command.v) # <<>>

\* the fields of the descriptor other than type, url and command are valid
RestIsValid(config) ==
  /\ config.args = Undefined \/ isArray(config.args)
  /\ config.env \in {Undefined, Obj}
  /\ config.disabled \in DisabledValues
  /\ config.autoApprove = Undefined \/ isArray(config.autoApprove)

\* the first entry of the file with neither a network URL nor a command
FirstWithoutTransport(entries) ==
  Min({i \in 1..Len(entries) :
         ~HasNetworkUrl(entries[i].config) /\ ~IsCommand(entries[i].config.command)})

\* C22: a descriptor with a network URL is accepted without a command, one with
\* a non-empty string command is accepted, one with neither is rejected,
\* whatever type it declares, with an error naming the provider and the command
\* field; and no session is constructed with a process provider without a
\* command.
C22_ValidationByTransportFamily ==
  /\ cf.pc = "done" /\ cf.route = "file" /\ cf.file.kind = "parsed"
       /\ cf.file.config.mcpServers
       /\ (\A i \in 1..Len(cf.file.config.entries) :
             RestIsValid(cf.file.config.entries[i].config))
     => LET entries == cf.file.config.entries
            accepted == \A i \in 1..Len(entries) :
                          \/ HasNetworkUrl(entries[i].config)
                          \/ IsCommand(entries[i].config.command)
        IN /\ cf.thrown = NoError <=> accepted
           /\ ~accepted =>
                /\ includes(text(cf.thrown.message),
                            Chars[entries[FirstWithoutTransport(entries)].name])
                /\ includes(text(cf.thrown.message), Chars["command"])
  /\ cf.pc = "done" /\ isInitialized /\ mcpConfiguration # NoSession
     => \A i \in 1..Len(cf.built) :
          cf.built[i].type = Str(<<"stdio">>) => IsCommand(cf.built[i].command)

\* the kinds in the order of the rules, and the keywords of each rule
KindOrder == <<"connection", "timeout", "configuration", "protocol">>

KindKeywords ==
  [connection |-> {"connection", "econnrefused"}, timeout |-> {"timeout", "etimedout"},
   configuration |-> {"config", "configuration"}, protocol |-> {"protocol", "invalid"}]

\* the positions in KindOrder of the rules the message matches, letter case aside
MatchedRules(message) ==
  {i \in 1..Len(KindOrder) :
     \E k \in KindKeywords[KindOrder[i]] :
       includes(toLowerCase(text(message)), toLowerCase(Chars[k]))}

\* C23: the kind is that of the first rule, in the order connection, timeout,
\* configuration, protocol, one of whose keywords occurs in the message,
\* letter case aside; a message that matches no rule gets protocol.
C23_FirstMatchingRule ==
  eh.pc = "categorized" =>
    eh.kind = IF MatchedRules(eh.error.message) = {} THEN "protocol"
              ELSE KindOrder[Min(MatchedRules(eh.error.message))]

\* a message with 'connection' and 'timeout' in it was classified connection
C23_Witness ==
  /\ eh.pc = "categorized"
  /\ {1, 2} \subseteq MatchedRules(eh.error.message)
  /\ text(eh.error.message) # toLowerCase(text(eh.error.message))
  /\ eh.kind = "connection"

\* C24: an error whose message is ECONNREFUSED, ECONNRESET, ENETUNREACH,
\* EHOSTUNREACH or EPIPE is classified connection.
C24_NetworkCodesAreConnection ==
  eh.pc = "categorized"
    /\ eh.error.message \in {<<"ECONNREFUSED">>, <<"ECONNRESET">>, <<"ENETUNREACH">>,
                             <<"EHOSTUNREACH">>, <<"EPIPE">>}
    => eh.kind = "connection"

\* the message contains one of the nine keywords, letter case aside
MessageOnAllowList(error) ==
  \E k \in retryableMessages :
    includes(toLowerCase(text(error.message)), toLowerCase(Chars[k]))

\* the code of the error, a string, contains one of the nine keywords as written
CodeOnAllowList(error) ==
  \E k \in retryableMessages : includes(text(error.code), Chars[k])

\* C25 as claimed: the decision is the explicit flag when the error carries
\* one, and otherwise whether the message is on the allow-list.
C25_FlagElseMessage ==
  eh.pc = "decided" =>
    eh.retryable = IF eh.error.retryable # <<>> THEN eh.error.retryable[1]
                   ELSE MessageOnAllowList(eh.error)

\* C25 as amended: the decision is the explicit flag when the error carries
\* one, whatever its message and code; otherwise the error is retryable
\* exactly when its message contains one of the nine keywords, letter case
\* aside, or its code, a string, contains one of them as written.
C25_FlagElseMessageOrCode ==
  eh.pc = "decided" =>
    eh.retryable = IF eh.error.retryable # <<>> THEN eh.error.retryable[1]
                   ELSE MessageOnAllowList(eh.error) \/ CodeOnAllowList(eh.error)

\* an error without a flag whose message is off the allow-list and whose code
\* is on it was decided retryable
C25_Witness ==
  /\ eh.pc = "decided"
  /\ eh.error.retryable = <<>>
  /\ ~MessageOnAllowList(eh.error)
  /\ CodeOnAllowList(eh.error)
  /\ eh.retryable

\* the properties of a discovered tool that getAvailableTools is to keep
KeptProperties == {"name", "description", "handler", "execute", "server"}

C27_DisconnectWithoutSessionIsSafe ==
  [][\A r \in ReleaseOutcomes :
       (mcpConfiguration = NoSession /\ Disconnect(r))
         => /\ last'.op = "disconnect"
            /\ last'.status = "ok"
            /\ ~isConnected("")'
            /\ \A n \in Names : ~isConnected(n)']_vars

\* disconnect() resolved on a manager that never constructed a session
C27_Witness ==
  /\ last.op = "disconnect"
  /\ last.status = "ok"
  /\ Constructed = {}
  /\ ~isConnected("")

\* the map has an entry that is disabled and one that is not
Mixed(config) ==
  /\ \E n \in DOMAIN config : config[n].disabled
  /\ \E n \in DOMAIN config : ~config[n].disabled

\* every tool that names an origin names a provider of the set
OriginsWithin(tools, providers) ==
  \A i \in 1..Len(tools) : serverOf(tools[i]) \in providers \cup {"default"}

\* initializeServers on a mixed map constructs a new session that holds
\* exactly the entries that are not disabled
MixedMapKeepsEnabled ==
  \A config \in ConfigMaps :
    (Mixed(config) /\ InitializeServers(config, NoError))
      => /\ mcpConfiguration' \notin Constructed
         /\ mcpConfiguration' # NoSession
         /\ sessionServers' = {n \in DOMAIN config : ~config[n].disabled}

\* getToolsets() resolving on a session of exactly one provider whose
\* discovered tools name no other origin
OneProviderToolsets(d) ==
  /\ isInitialized
  /\ mcpConfiguration # NoSession
  /\ Cardinality(sessionServers) = 1
  /\ d.ok
  /\ OriginsWithin(d.tools, sessionServers)
  /\ GetToolsets(d)

\* C28 as claimed: the session constructed from a map that mixes enabled and
\* disabled entries holds exactly the entries that are not disabled, and on a
\* session of exactly one provider getToolsets() returns at most one group.
C28_OneProviderOneGroup ==
  [][/\ MixedMapKeepsEnabled
     /\ \A d \in ToolsetDiscoveries :
          OneProviderToolsets(d) => Len(last'.toolsets) <= 1]_vars

\* C28 as amended: the session constructed from a mixed map holds exactly the
\* entries that are not disabled, and on a session of exactly one provider
\* whose discovered tools name no other origin getToolsets() returns at most
\* one group for that provider and at most one more, "default", for the tools
\* that name no origin.
C28_OneProviderGroupAndDefault ==
  [][/\ MixedMapKeepsEnabled
     /\ \A d \in ToolsetDiscoveries :
          OneProviderToolsets(d) =>
            /\ last'.status = "ok"
            /\ \A i \in 1..Len(last'.toolsets) :
                 last'.toolsets[i].server \in sessionServers \cup {"default"}
            /\ \A i, j \in 1..Len(last'.toolsets) :
                 last'.toolsets[i].server = last'.toolsets[j].server => i = j]_vars

\* getToolsets() returned the group of the only provider and the default group
C28_Witness ==
  /\ last.op = "getToolsets"
  /\ last.status = "ok"
  /\ sessionServers = {"fs"}
  /\ Len(last.toolsets) = 2
  /\ last.toolsets[1].server = "fs"
  /\ last.toolsets[2].server = "default"

\* what the call would settle with had it run alone on the manager, its
\* getTools() and its handler settling as they did for it
Alone(k) ==
  IF k.op = "getAvailableTools" THEN AsResult(getAvailableTools(k.d))
  ELSE IF k.op = "getToolsets" THEN AsResult(getToolsets(k.d))
  ELSE AsResult(executeToolCall(k.toolName, k.params, k.d, k.h))

\* a step of one of the calls
CallStep ==
  \/ \E c \in Callers, op \in {"getAvailableTools", "getToolsets", "executeToolCall"},
        toolName \in CallToolNames \cup {""}, params \in {"none", "p1"} :
       Issue(c, op, toolName, params)
  \/ \E c \in Callers, d \in CallDiscoveries : DiscoverySettles(c, d)
  \/ \E c \in Callers : Resume(c)
  \/ \E c \in Callers, h \in CallHandlerOutcomes : HandlerSettles(c, h)

\* C29: however the steps of getAvailableTools, getToolsets and
\* executeToolCall calls issued on an initialized manager interleave, each
\* call settles with what it would settle with alone on the same discovery
\* and handler results, and no step of a call changes the session the manager
\* holds, its provider bookkeeping, its timers or its initialized flag.
C29_ConcurrentCallsAreIndependent ==
  /\ [](\A c \in Callers :
          calls[c].pc = "settled" /\ calls[c].ready => calls[c].result = Alone(calls[c]))
  /\ [][CallStep => UNCHANGED <<mcpConfiguration, servers, sessionServers, isInitialized,
                                reconnectTimers>>]_vars

\* two calls issued on the initialized manager were in flight together, were
\* given different discovery results, and settled, one with the value of its
\* handler and the other with its toolsets
C29_Witness ==
  \E c, o \in Callers :
    /\ c # o
    /\ calls[c].pc = "settled" /\ calls[c].ready /\ calls[c].op = "executeToolCall"
    /\ calls[c].result.status = "ok" /\ calls[c].result.value = "success"
    /\ calls[o].pc = "settled" /\ calls[o].ready /\ calls[o].op = "getToolsets"
    /\ calls[o].result.status = "ok"
    /\ calls[o].d # calls[c].d
    /\ c \in calls[o].during


\* what an instance's session, provider bookkeeping and isConnected() amount to
InstanceView(h, j) ==
  LET m == h.managers[j] IN
  [manager |-> m,
   servers |-> IF m.servers = 0 THEN {} ELSE h.maps[m.servers],
   reconnectTimers |-> IF m.reconnectTimers = 0 THEN {} ELSE h.maps[m.reconnectTimers],
   session |-> IF m.mcpConfiguration = 0 THEN [state |-> "none", servers |-> {}]
               ELSE h.configurations[m.mcpConfiguration],
   connected |-> instanceIsConnected(h, j, ""),
   connectedTo |-> {n \in {"fs", "web"} : instanceIsConnected(h, j, n)}]

\* C30: the MCPManager instances are independent: an operation on one of them
\* (its construction, initializeServers, getAvailableTools, disconnect,
\* reconnect and its retries) leaves the session, the provider bookkeeping and
\* the isConnected() results of every other instance as they were.
C30_InstancesAreIndependent ==
  [][mi'.pc = "heap" =>
       \A j \in Managers \ {mi'.actor} : InstanceView(mi', j) = InstanceView(heap, j)]_vars

\* The primary manager holds a connected session with its providers while a
\* second manager, initialized and then disconnected, holds none.
C30_Witness ==
  /\ mi.pc = "heap"
  /\ mi.managers[1].born /\ mi.managers[2].born
  /\ instanceIsConnected(mi, 1, "fs")
  /\ mi.configurations[mi.managers[1].mcpConfiguration].state = "connected"
  /\ ~instanceIsConnected(mi, 2, "")
  /\ \E s \in 1..Len(mi.configurations) :
       /\ mi.configurations[s].state = "released"
       /\ s > mi.managers[1].mcpConfiguration


\* the origin provider name of a discovered tool; "default" when it names none
Origin(tool) ==
  IF "server" \in DOMAIN tool /\ tool.server # "" THEN tool.server ELSE "default"

\* C31: the groups getToolsets() returns partition the list getAvailableTools
\* gave it by origin provider name: no two groups have the same name, no group
\* is empty, every tool of the list has exactly one group of its origin (the
\* group named default when it names none), and each group holds the tools of
\* its origin in the order of the list.
C31_ToolsetsPartitionTheTools ==
  (last.op = "getToolsets" /\ last.status = "ok")
    => /\ \A i, j \in 1..Len(last.toolsets) :
            last.toolsets[i].server = last.toolsets[j].server => i = j
       /\ \A i \in 1..Len(last.toolsets) :
            /\ last.toolsets[i].tools # <<>>
            /\ last.toolsets[i].tools =
                 SelectSeq(last.tools, LAMBDA t : Origin(t) = last.toolsets[i].server)
       /\ \A k \in 1..Len(last.tools) :
            Cardinality({i \in 1..Len(last.toolsets) :
                           last.toolsets[i].server = Origin(last.tools[k])}) = 1

\* getToolsets() returned a group of two tools that name no origin
C31_Witness ==
  /\ last.op = "getToolsets"
  /\ last.status = "ok"
  /\ \E i \in 1..Len(last.toolsets) :
       /\ last.toolsets[i].server = "default"
       /\ Len(last.toolsets[i].tools) = 2
       /\ \A k \in 1..2 : "server" \notin DOMAIN last.toolsets[i].tools[k]


\* C32: when the configuration file does not exist, loading gives an empty
\* provider set, and initializeServers() called without an argument on a new
\* manager completes without raising, constructs no session and leaves
\* isConnected() false.
C32_MissingFileIsEmptyConfiguration ==
  (cf.pc = "done" /\ cf.route = "file" /\ cf.file.kind = "missing")
    => /\ cf.thrown = NoError
       /\ cf.entries = <<>>
       /\ cf.built = <<>>
       /\ ~cf.constructed
       /\ last.op = "initializeServers"
       /\ last.status = "ok"
       /\ mcpConfiguration = NoSession
       /\ \A s \in SessionIds : sessions[s].state = "unborn"
       /\ ~isInitialized
       /\ ~isConnected("")
       /\ \A n \in Names : ~isConnected(n)

\* initializeServers() has returned on a manager whose file does not exist
C32_Witness ==
  /\ cf.pc = "done"
  /\ cf.route = "file"
  /\ cf.file.kind = "missing"
  /\ last.op = "initializeServers"
  /\ last.status = "ok"
  /\ ~isConnected("")


\* C34: on a manager that is not Initialized, because initializeServers was
\* never called on it or because it has been disconnected, getAvailableTools,
\* getToolsets and executeToolCall reject with the 'not initialized' error,
\* and no provider is contacted: no getTools() reaches a session object and no
\* handler is invoked.  A step that settles one of the three calls is a step
\* after which last.op names it.
C34_NotInitializedRejects ==
  [][(~isInitialized /\ last'.op \in {"getAvailableTools", "getToolsets", "executeToolCall"})
       => /\ last'.status = "error"
          /\ includes(text(last'.error.message), Chars["not initialized"])
          /\ last'.caught = NoError
          /\ last'.tools = <<>>
          /\ last'.calls = <<>>
          /\ sessions' = sessions]_vars

\* getAvailableTools() rejected on a manager that has been disconnected
C34_Witness ==
  /\ last.op = "getAvailableTools"
  /\ last.status = "error"
  /\ ~isInitialized
  /\ \E s \in SessionIds : sessions[s].state = "released"


\* C35: reconnect() on an Initialized manager releases the session it holds
\* before the first discovery attempt of that reconnect starts: a release that
\* rejects ends the call before any attempt, and after one that resolves the
\* session has one release more and is connected exactly when the attempt
\* succeeded.  On a manager that is not Initialized no release is performed.
C35_ReleaseBeforeDiscovery ==
  [][\A r \in ReleaseOutcomes, d \in Discoveries :
       Reconnect(r, d)
         => IF isInitialized
            THEN /\ mcpConfiguration # NoSession
                 /\ IF r = NoError
                    THEN /\ sessions'[mcpConfiguration].releases
                              = sessions[mcpConfiguration].releases + 1
                         /\ sessions'[mcpConfiguration].state
                              = IF d.ok THEN "connected" ELSE "released"
                         /\ last'.status = IF d.ok THEN "ok" ELSE "pending"
                    ELSE /\ sessions' = sessions
                         /\ last'.status = "error"
                         /\ last'.caught = r
                         /\ rc' = Idle
            ELSE \A s \in SessionIds : sessions'[s].releases = sessions[s].releases]_vars

\* a reconnect() on an Initialized manager whose session had been connected
\* released it and connected it again
C35_Witness ==
  /\ last.op = "reconnect"
  /\ last.status = "ok"
  /\ isInitialized
  /\ mcpConfiguration # NoSession
  /\ sessions[mcpConfiguration].releases >= 1
  /\ sessions[mcpConfiguration].state = "connected"

\* C36: a disconnect() whose release of the session rejects raises an error
\* of type connection with message 'Failed to disconnect MCP servers' and
\* leaves the manager as it was before the call: the session is still held,
\* the provider bookkeeping is intact and isConnected() answers as before, so
\* a later disconnect() releases the same session again.
C36_FailedDisconnectChangesNothing ==
  [][\A r \in ReleaseOutcomes \ {NoError} :
       Disconnect(r)
         => /\ last'.status = "error"
            /\ last'.error.type = "connection"
            /\ last'.error.message = <<"Failed to disconnect MCP servers">>
            /\ last'.caught = r
            /\ mcpConfiguration' = mcpConfiguration
            /\ mcpConfiguration' # NoSession
            /\ UNCHANGED <<servers, isInitialized, reconnectTimers, sessions, sessionServers,
                           pendingTimers, rc>>
            /\ \A n \in Names \cup {""} : isConnected(n)' = isConnected(n)]_vars

\* a disconnect() failed on a manager whose session was connected
C36_Witness ==
  /\ last.op = "disconnect"
  /\ last.status = "error"
  /\ isInitialized
  /\ mcpConfiguration # NoSession
  /\ sessions[mcpConfiguration].state = "connected"
  /\ isConnected("fs")


\* C37: whatever calls of initializeServers, getAvailableTools, getToolsets,
\* executeToolCall, reconnect and disconnect have been made, the manager is
\* Initialized exactly when it holds a session object; so getAvailableTools
\* and getToolsets never resolve through the branch that returns the empty
\* list without a session: after each call of them that resolved, the manager
\* holds a session and that session is connected.
C37_InitializedIffSession ==
  /\ isInitialized <=> mcpConfiguration # NoSession
  /\ (last.op \in {"getAvailableTools", "getToolsets"} /\ last.status = "ok")
       => /\ mcpConfiguration # NoSession
          /\ sessions[mcpConfiguration].state = "connected"

\* getToolsets() resolved on the second session of a manager that had been
\* disconnected and initialized again
C37_Witness ==
  /\ last.op = "getToolsets"
  /\ last.status = "ok"
  /\ last.tools # <<>>
  /\ isInitialized
  /\ mcpConfiguration = 2
  /\ sessions[1].state = "released"


\* C33: the sanitizer does not mutate: after sanitizeToolSchema or
\* sanitizeTools returns, every tool object that was in memory before the
\* call, the ones given included, has exactly the fields and values it had,
\* its inputSchema included; and the tools returned are distinct copies: one
\* new object for each tool given, no two of them the same object, each with
\* the fields of the tool it was made from except inputSchema.
C33_SanitizerDoesNotMutate ==
  sn.pc = "done"
    => /\ \A ref \in 1..Len(sn.before) : sn.objects[ref] = sn.before[ref]
       /\ Len(sn.returned) = Len(sn.given)
       /\ \A i \in 1..Len(sn.returned) :
            /\ sn.returned[i] \in (Len(sn.before) + 1)..Len(sn.objects)
            /\ \A j \in 1..Len(sn.returned) : sn.returned[j] = sn.returned[i] => j = i
            /\ LET copy == sn.objects[sn.returned[i]]
                   tool == sn.before[sn.given[i]]
               IN /\ DOMAIN copy = DOMAIN tool \ {"inputSchema"}
                  /\ \A f \in DOMAIN copy : copy[f] = tool[f]

\* sanitizeTools was given the same object with an inputSchema twice
C33_Witness ==
  /\ sn.pc = "done"
  /\ sn.op = "sanitizeTools"
  /\ Len(sn.given) = 2
  /\ sn.given[1] = sn.given[2]
  /\ "inputSchema" \in DOMAIN sn.before[sn.given[1]]
  /\ sn.returned[1] # sn.returned[2]

====
